---------------------------- MODULE Spec2Model ----------------------------
(***************************************************************************)
(* Model of the web crawler agent of services/engine/agents/crawler.py:    *)
(* the BFS crawl loop (CrawlerAgent.crawl), its retry wrapper, the         *)
(* fetcher's outcome classification, the rate limiter, the URL utilities,  *)
(* content extraction, bulk extraction (extract_urls) with its semaphore   *)
(* and gather, the request models and endpoints of api/crawl.py, and the   *)
(* retry loop of EntityExtractorAgent.extract (agents/extractor.py).       *)
(* Strings are sequences of one-character strings, so that                 *)
(* lower-casing, prefix and substring tests are computed, not assumed.     *)
(* Time is in milliseconds.                                                *)
(***************************************************************************)
EXTENDS Integers, Sequences, FiniteSets, TLC

(***************************************************************************)
(* Strings                                                                 *)
(***************************************************************************)

\* str.lower() on one character
LowerChar(c) ==
    CASE c = "A" -> "a" [] c = "B" -> "b" [] c = "C" -> "c" [] c = "D" -> "d"
      [] c = "E" -> "e" [] c = "F" -> "f" [] c = "G" -> "g" [] c = "H" -> "h"
      [] c = "I" -> "i" [] c = "J" -> "j" [] c = "K" -> "k" [] c = "L" -> "l"
      [] c = "M" -> "m" [] c = "N" -> "n" [] c = "O" -> "o" [] c = "P" -> "p"
      [] c = "Q" -> "q" [] c = "R" -> "r" [] c = "S" -> "s" [] c = "T" -> "t"
      [] c = "U" -> "u" [] c = "V" -> "v" [] c = "W" -> "w" [] c = "X" -> "x"
      [] c = "Y" -> "y" [] c = "Z" -> "z" [] OTHER -> c

\* str.lower()
Lower(s) == [i \in 1..Len(s) |-> LowerChar(s[i])]

\* s[a:b] with 0-based Python slice bounds, 0 <= a
Slice(s, a, b) ==
    LET hi == IF b > Len(s) THEN Len(s) ELSE b
    IN  IF a >= hi THEN << >> ELSE SubSeq(s, a + 1, hi)

\* s.startswith(p)
StartsWith(s, p) == Len(p) <= Len(s) /\ SubSeq(s, 1, Len(p)) = p

\* p in s
Contains(s, p) ==
    \E i \in 0..(Len(s) - Len(p)) : SubSeq(s, i + 1, i + Len(p)) = p

\* s.find(c, start): 0-based index of the first c at or after start, else -1
Find(s, c, start) ==
    LET hits == {i \in start..(Len(s) - 1) : s[i + 1] = c}
    IN  IF hits = {} THEN -1
        ELSE CHOOSE i \in hits : \A j \in hits : i <= j

\* s.rfind(c): 0-based index of the last c, else -1
RFind(s, c) ==
    LET hits == {i \in 0..(Len(s) - 1) : s[i + 1] = c}
    IN  IF hits = {} THEN -1
        ELSE CHOOSE i \in hits : \A j \in hits : j <= i

\* s.rstrip(c)
RStrip(s, c) ==
    LET keep == {i \in 1..Len(s) : s[i] # c}
    IN  IF keep = {} THEN << >>
        ELSE SubSeq(s, 1, CHOOSE i \in keep : \A j \in keep : j <= i)

\* str(n) for 0 <= n <= 999
Digit(d) ==
    CASE d = 0 -> "0" [] d = 1 -> "1" [] d = 2 -> "2" [] d = 3 -> "3"
      [] d = 4 -> "4" [] d = 5 -> "5" [] d = 6 -> "6" [] d = 7 -> "7"
      [] d = 8 -> "8" [] OTHER -> "9"

IntToStr(n) ==
    IF n < 10 THEN <<Digit(n)>>
    ELSE IF n < 100 THEN <<Digit(n \div 10), Digit(n % 10)>>
    ELSE <<Digit(n \div 100), Digit((n \div 10) % 10), Digit(n % 10)>>

S_http == <<"h", "t", "t", "p">>
S_https == <<"h", "t", "t", "p", "s">>
S_www_dot == <<"w", "w", "w", ".">>
S_HTTP_sp == <<"H", "T", "T", "P", " ">>
S_HTTP_5 == <<"H", "T", "T", "P", " ", "5">>
S_connection == <<"c", "o", "n", "n", "e", "c", "t", "i", "o", "n">>
S_timed_out == <<"t", "i", "m", "e", "d", " ", "o", "u", "t">>
S_timeout == <<"t", "i", "m", "e", "o", "u", "t">>
S_too_many_redirects ==
    <<"t", "o", "o", " ", "m", "a", "n", "y", " ",
      "r", "e", "d", "i", "r", "e", "c", "t", "s">>

(***************************************************************************)
(* urllib.parse as used by the URL utilities                               *)
(***************************************************************************)

SchemeChars ==
    {"a", "b", "c", "d", "e", "f", "g", "h", "i", "j", "k", "l", "m", "n",
     "o", "p", "q", "r", "s", "t", "u", "v", "w", "x", "y", "z",
     "0", "1", "2", "3", "4", "5", "6", "7", "8", "9", "+", "-", "."}

Letters ==
    {"a", "b", "c", "d", "e", "f", "g", "h", "i", "j", "k", "l", "m", "n",
     "o", "p", "q", "r", "s", "t", "u", "v", "w", "x", "y", "z"}

\* <<s[:i], s[i+1:]>>, or <<s, ''>> when i < 0
SplitAt(s, i) ==
    IF i < 0 THEN <<s, << >>>>
    ELSE <<Slice(s, 0, i), Slice(s, i + 1, Len(s))>>

\* s split at the first c: <<before, after>>, or <<s, ''>> without a c
Partition(s, c) == SplitAt(s, Find(s, c, 0))

\* urlsplit: <<scheme, rest>>; the scheme is lower-cased
SplitScheme(url) ==
    LET i == Find(url, ":", 0)
    IN  IF /\ i > 0
           /\ LowerChar(url[1]) \in Letters
           /\ \A k \in 1..i : LowerChar(url[k]) \in SchemeChars
        THEN <<Lower(Slice(url, 0, i)), Slice(url, i + 1, Len(url))>>
        ELSE <<<< >>, url>>

\* index at which the netloc that starts at 0-based index 2 ends
NetlocEnd(s) ==
    LET hits == {i \in 2..(Len(s) - 1) : s[i + 1] \in {"/", "?", "#"}}
    IN  IF hits = {} THEN Len(s)
        ELSE CHOOSE i \in hits : \A j \in hits : i <= j

\* urlsplit: <<netloc, rest>>; the netloc follows a leading //
SplitNetloc(r) ==
    IF Slice(r, 0, 2) = <<"/", "/">>
    THEN <<Slice(r, 2, NetlocEnd(r)), Slice(r, NetlocEnd(r), Len(r))>>
    ELSE <<<< >>, r>>

\* urllib.parse._splitparams: <<path, params>>
SplitParams(u) ==
    SplitAt(u, IF Find(u, "/", 0) >= 0
               THEN Find(u, ";", RFind(u, "/"))
               ELSE Find(u, ";", 0))

\* the parse result, from <<path, params>>
ParseResult(scheme, netloc, pp, query, fragment) ==
    [scheme |-> scheme, netloc |-> netloc, path |-> pp[1],
     params |-> pp[2], query |-> query, fragment |-> fragment]

\* urlparse after url.split('?', 1): rq is <<rest, query>>
AfterQuery(scheme, netloc, rq, fragment) ==
    ParseResult(scheme, netloc, SplitParams(rq[1]), rq[2], fragment)

\* urlparse after url.split('#', 1): rf is <<rest, fragment>>
AfterFragment(scheme, netloc, rf) ==
    AfterQuery(scheme, netloc, Partition(rf[1], "?"), rf[2])

\* urlparse after the netloc: nr is <<netloc, rest>>
AfterNetloc(scheme, nr) == AfterFragment(scheme, nr[1], Partition(nr[2], "#"))

\* urlparse after the scheme: sr is <<scheme, rest>>
AfterScheme(sr) == AfterNetloc(sr[1], SplitNetloc(sr[2]))

\* urllib.parse.urlparse(url)
urlparse(url) == AfterScheme(SplitScheme(url))

\* urlsplit raises ValueError("Invalid IPv6 URL") when the netloc holds one of
\* the brackets [ and ] without the other
BracketsUnpaired(netloc) ==
    (Find(netloc, "[", 0) >= 0) # (Find(netloc, "]", 0) >= 0)

\* whether urlparse(url), and so urljoin(base, url), raises ValueError
urlparse_raises(url) == BracketsUnpaired(urlparse(url).netloc)

\* urllib.parse.urlunparse((scheme, netloc, path, params, query, fragment))
urlunparse(scheme, netloc, path, params, query, fragment) ==
    LET u1 == IF params # << >> THEN path \o <<";">> \o params ELSE path
        u2 == IF netloc # << >> \/ (scheme \in {S_http, S_https}
                                    /\ Slice(u1, 0, 2) # <<"/", "/">>)
              THEN <<"/", "/">> \o netloc
                   \o (IF u1 # << >> /\ u1[1] # "/" THEN <<"/">> ELSE << >>)
                   \o u1
              ELSE u1
        u3 == IF scheme # << >> THEN scheme \o <<":">> \o u2 ELSE u2
        u4 == IF query # << >> THEN u3 \o <<"?">> \o query ELSE u3
    IN  IF fragment # << >> THEN u4 \o <<"#">> \o fragment ELSE u4

(***************************************************************************)
(* URL utilities                                                           *)
(***************************************************************************)

\* path.rstrip("/") or "/"
PathOrRoot(stripped) == IF stripped = << >> THEN <<"/">> ELSE stripped

\* _normalize_url, from the parsed url
NormalizeParsed(p) ==
    Lower(urlunparse(p.scheme, p.netloc, PathOrRoot(RStrip(p.path, "/")),
                     p.params, p.query, << >>))

\* _normalize_url(url)
_normalize_url(url) == NormalizeParsed(urlparse(url))

\* the comparison of _same_domain, on the lower-cased host and base domain
HostMatches(host, bd) ==
    host = bd \/ host = S_www_dot \o bd \/ bd = S_www_dot \o host

\* the scope test comparing only the last label of the host
LastLabel(h) == Slice(h, RFind(h, ".") + 1, Len(h))
_same_domain_suffix(url, base_domain) ==
    LastLabel(Lower(urlparse(url).netloc)) = LastLabel(Lower(base_domain))

\* _same_domain comparing the host and the base domain as they are written
_same_domain_case_sensitive(url, base_domain) ==
    HostMatches(urlparse(url).netloc, base_domain)

\* _same_domain(url, base_domain)
_same_domain(url, base_domain) ==
    HostMatches(Lower(urlparse(url).netloc), Lower(base_domain))

(***************************************************************************)
(* The crawled world: URLs, pages and the outcomes a request can have      *)
(***************************************************************************)

U_root == <<"h", "t", "t", "p", "s", ":", "/", "/", "a", ".", "t", "e", "s", "t", "/">>
U_page2 == <<"h", "t", "t", "p", "s", ":", "/", "/", "a", ".", "t", "e", "s", "t", "/", "p", "a", "g", "e", "2">>
U_page2_slash == <<"h", "t", "t", "p", "s", ":", "/", "/", "A", ".", "t", "e", "s", "t", "/", "P", "a", "g", "e", "2", "/", "#", "t", "o", "p">>
U_ext == <<"h", "t", "t", "p", "s", ":", "/", "/", "b", ".", "t", "e", "s", "t", "/", "e", "x", "t">>
U_www_p3 == <<"h", "t", "t", "p", "s", ":", "/", "/", "w", "w", "w", ".", "a", ".", "t", "e", "s", "t", "/", "p", "3">>
U_deep == <<"h", "t", "t", "p", "s", ":", "/", "/", "a", ".", "t", "e", "s", "t", "/", "p", "3", "/", "d", "e", "e", "p">>
U_www_root == <<"h", "t", "t", "p", "s", ":", "/", "/", "W", "W", "W", ".", "a", ".", "t", "e", "s", "t">>
\* an href with an unclosed bracket in its host; never a key of the world
H_bracket == <<"h", "t", "t", "p", ":", "/", "/", "[">>

Urls == {U_root, U_page2, U_page2_slash, U_ext, U_www_p3, U_deep, U_www_root}

CT_html == <<"t", "e", "x", "t", "/", "h", "t", "m", "l", ";", " ", "c", "h", "a", "r", "s", "e", "t", "=", "u", "t", "f", "-", "8">>
CT_pdf == <<"a", "p", "p", "l", "i", "c", "a", "t", "i", "o", "n", "/", "p", "d", "f">>
S_text_html == <<"t", "e", "x", "t", "/", "h", "t", "m", "l">>
ContentTypes == {CT_html, CT_pdf}
Statuses == {200, 404, 503}

\* str(exc) of an httpx.RequestError that is neither a timeout nor a redirect loop
E_conn_reset == <<"C", "o", "n", "n", "e", "c", "t", "i", "o", "n", " ", "r", "e", "s", "e", "t", " ", "b", "y", " ", "p", "e", "e", "r">>
TransportMessages == {E_conn_reset, << >>}

\* what one client.get(url) can do: raise, or give a response
Raises(exc, msg) == [exc |-> exc, msg |-> msg, ctype |-> << >>, status |-> 0]
Responds(ctype, status) ==
    [exc |-> "none", msg |-> << >>, ctype |-> ctype, status |-> status]

O_timeout == Raises("TimeoutException", << >>)
O_redirects == Raises("TooManyRedirects", << >>)
O_reset == Raises("RequestError", E_conn_reset)
O_empty == Raises("RequestError", << >>)
O_ok == Responds(CT_html, 200)
O_404 == Responds(CT_html, 404)
O_503 == Responds(CT_html, 503)
O_pdf == Responds(CT_pdf, 200)
O_pdf_503 == Responds(CT_pdf, 503)

NetOutcomes ==
    {O_timeout, O_redirects}
    \cup {Raises("RequestError", m) : m \in TransportMessages}
    \cup {Responds(c, st) : c \in ContentTypes, st \in Statuses}

NoLinks == [u \in Urls |-> << >>]
NoRedirect == [u \in Urls |-> u]
AlwaysOk == [u \in Urls |-> {O_ok}]

\* seed / links to /page2 and to another domain; both pages may do anything
SiteScenario ==
    [links |-> [NoLinks EXCEPT ![U_root] = <<U_page2, U_ext>>],
     final |-> NoRedirect,
     serves |-> [AlwaysOk EXCEPT ![U_root] = NetOutcomes,
                                 ![U_www_root] = NetOutcomes,
                                 ![U_page2] = NetOutcomes]]

\* duplicates under normalization, a cycle, a www. host and a deeper level
SiteCyclic ==
    [links |-> [NoLinks EXCEPT
                  ![U_root] = <<U_page2, U_page2_slash, U_ext, U_www_p3>>,
                  ![U_page2] = <<U_root, U_www_p3, U_deep>>,
                  ![U_www_p3] = <<U_deep, U_ext, U_page2_slash>>,
                  ![U_deep] = <<U_www_root, U_ext>>,
                  ![U_www_root] = <<U_page2_slash, U_ext>>],
     final |-> [NoRedirect EXCEPT ![U_page2_slash] = U_page2],
     serves |-> [AlwaysOk EXCEPT
                  ![U_root] = {O_ok, O_503},
                  ![U_page2] = {O_ok, O_pdf, O_timeout},
                  ![U_www_p3] = {O_ok, O_404, O_reset},
                  ![U_deep] = {O_ok, O_redirects, O_empty},
                  ![U_www_root] = {O_ok, O_pdf_503}]]

\* a chain root -> page2 -> p3 -> deep, the seed redirecting to the www. host
SiteChain ==
    [links |-> [NoLinks EXCEPT
                  ![U_www_root] = <<U_page2_slash>>,
                  ![U_root] = <<U_page2>>,
                  ![U_page2] = <<U_www_p3>>,
                  ![U_www_p3] = <<U_deep, U_ext>>,
                  ![U_deep] = <<U_root>>],
     final |-> [NoRedirect EXCEPT ![U_root] = U_www_root,
                                  ![U_page2_slash] = U_page2],
     serves |-> [AlwaysOk EXCEPT
                  ![U_root] = {O_ok, O_reset, O_timeout},
                  ![U_www_root] = {O_ok, O_empty},
                  ![U_page2] = {O_ok, O_503, O_404},
                  ![U_page2_slash] = {O_ok, O_pdf},
                  ![U_www_p3] = {O_ok, O_503, O_reset, O_redirects},
                  ![U_deep] = {O_ok, O_pdf}]]

\* the www. host redirects to the apex host, and /page2 carries a malformed
\* href
SiteAlias ==
    [links |-> [NoLinks EXCEPT
                  ![U_root] = <<U_www_root, U_page2, U_www_p3>>,
                  ![U_page2] = <<U_deep, H_bracket>>,
                  ![U_www_p3] = <<U_deep>>],
     final |-> [NoRedirect EXCEPT ![U_www_root] = U_root],
     serves |-> [AlwaysOk EXCEPT
                  ![U_www_root] = {O_ok, O_timeout},
                  ![U_page2] = {O_ok, O_503, O_pdf},
                  ![U_www_p3] = {O_ok, O_404}]]

SiteNames == {"scenario", "cyclic", "chain", "alias"}

Site(name) ==
    CASE name = "scenario" -> SiteScenario
      [] name = "cyclic" -> SiteCyclic
      [] name = "chain" -> SiteChain
      [] OTHER -> SiteAlias

Seeds == {U_root, U_www_root}

\* pages on which _extract_page_data raises: _get_main_content decomposes a
\* noise element and then reads the attributes of the elements inside it
NoisyPages == {U_ext}

(***************************************************************************)
(* Fetcher and retry classification                                        *)
(***************************************************************************)

\* Optional[str] / Optional[PageData]: None, or a value
None == [none |-> TRUE, val |-> << >>]
Some(v) == [none |-> FALSE, val |-> v]

\* Python truthiness of an Optional[str]
Truthy(e) == ~e.none /\ e.val # << >>

\* _extract_page_data(soup, final_url): the record's url is the final URL
_extract_page_data(final_url) == [url |-> final_url]

\* _extract_links(soup, final_url): the http(s) links of the page served there
_extract_links(siteName, final_url) == Site(siteName).links[final_url]

\* _extract_page_data raises on the page served at final_url
_extract_page_data_raises(final_url) == final_url \in NoisyPages

\* _extract_links raises: urljoin / urlparse raise ValueError on one of the hrefs
_extract_links_raises(siteName, final_url) ==
    \E i \in 1..Len(Site(siteName).links[final_url]) :
        urlparse_raises(Site(siteName).links[final_url][i])

\* _fetch_page raises instead of returning: the response is an HTML page below
\* status 400 and _extract_page_data or _extract_links raises; _fetch_page
\* catches nothing there
_fetch_page_raises(siteName, url, o) ==
    /\ o.exc = "none"
    /\ Contains(o.ctype, S_text_html)
    /\ o.status < 400
    /\ \/ _extract_page_data_raises(Site(siteName).final[url])
       \/ _extract_links_raises(siteName, Site(siteName).final[url])

\* _fetch_page with the status tested before the content type
_fetch_page_status_first(siteName, url, o) ==
    IF o.exc = "TimeoutException"
    THEN [page_data |-> None, links |-> << >>, error |-> Some(S_timeout)]
    ELSE IF o.exc = "TooManyRedirects"
    THEN [page_data |-> None, links |-> << >>,
          error |-> Some(S_too_many_redirects)]
    ELSE IF o.exc = "RequestError"
    THEN [page_data |-> None, links |-> << >>, error |-> Some(o.msg)]
    ELSE IF o.status >= 400
    THEN [page_data |-> None, links |-> << >>,
          error |-> Some(S_HTTP_sp \o IntToStr(o.status))]
    ELSE IF ~Contains(o.ctype, S_text_html)
    THEN [page_data |-> None, links |-> << >>, error |-> None]
    ELSE LET final_url == Site(siteName).final[url]
         IN  [page_data |-> Some(_extract_page_data(final_url)),
              links |-> _extract_links(siteName, final_url),
              error |-> None]

\* _fetch_page taking only the bare media type text/html for a page
_fetch_page_exact_type(siteName, url, o) ==
    IF o.exc = "TimeoutException"
    THEN [page_data |-> None, links |-> << >>, error |-> Some(S_timeout)]
    ELSE IF o.exc = "TooManyRedirects"
    THEN [page_data |-> None, links |-> << >>,
          error |-> Some(S_too_many_redirects)]
    ELSE IF o.exc = "RequestError"
    THEN [page_data |-> None, links |-> << >>, error |-> Some(o.msg)]
    ELSE IF o.ctype # S_text_html
    THEN [page_data |-> None, links |-> << >>, error |-> None]
    ELSE IF o.status >= 400
    THEN [page_data |-> None, links |-> << >>,
          error |-> Some(S_HTTP_sp \o IntToStr(o.status))]
    ELSE LET final_url == Site(siteName).final[url]
         IN  [page_data |-> Some(_extract_page_data(final_url)),
              links |-> _extract_links(siteName, final_url),
              error |-> None]

\* CrawlerAgent._fetch_page: the (page_data, links, error) of one outcome
_fetch_page(siteName, url, o) ==
    IF o.exc = "TimeoutException"
    THEN [page_data |-> None, links |-> << >>, error |-> Some(S_timeout)]
    ELSE IF o.exc = "TooManyRedirects"
    THEN [page_data |-> None, links |-> << >>,
          error |-> Some(S_too_many_redirects)]
    ELSE IF o.exc = "RequestError"
    THEN [page_data |-> None, links |-> << >>, error |-> Some(o.msg)]
    ELSE IF ~Contains(o.ctype, S_text_html)
    THEN [page_data |-> None, links |-> << >>, error |-> None]
    ELSE IF o.status >= 400
    THEN [page_data |-> None, links |-> << >>,
          error |-> Some(S_HTTP_sp \o IntToStr(o.status))]
    ELSE LET final_url == Site(siteName).final[url]
         IN  [page_data |-> Some(_extract_page_data(final_url)),
              links |-> _extract_links(siteName, final_url),
              error |-> None]

\* is_retryable without the connection test
is_retryable_no_connection(error) ==
    \/ Contains(Lower(error), S_timed_out)
    \/ StartsWith(error, S_HTTP_5)

\* is_retryable with every HTTP error status taken for a server error
is_retryable_any_status(error) ==
    \/ Contains(Lower(error), S_connection)
    \/ Contains(Lower(error), S_timed_out)
    \/ StartsWith(error, S_HTTP_sp)

\* is_retryable of _fetch_page_with_retry
is_retryable(error) ==
    \/ Contains(Lower(error), S_connection)
    \/ Contains(Lower(error), S_timed_out)
    \/ StartsWith(error, S_HTTP_5)

\* max_retries default of _fetch_page_with_retry
max_retries == 2

\* a backoff growing with the square of the attempt number: 1.5 s, 6 s
BackoffMs_quadratic(attempt) == 1500 * (attempt + 1) * (attempt + 1)

\* backoff before attempt number attempt + 1 (0-based attempt): 1.5 s, 3 s
BackoffMs(attempt) == 1500 * (attempt + 1)

\* self._timeout default: a timed-out request lasts this long
TimeoutMs == 15000

(***************************************************************************)
(* Bounds of the model                                                     *)
(***************************************************************************)

MaxDepthBound == 2
MaxPagesBound == 3
\* how long a request that does not time out takes
ReqMs == 200
\* rate_limit values, in tenths of a request per second
RateTenths == {0, 1, 10}
\* values of time.monotonic() when the crawl starts
StartClocks == {0, 70000}

(***************************************************************************)
(* State                                                                   *)
(***************************************************************************)

VARIABLES
    site,           \* the world this crawl runs against
    start_url,      \* crawl argument
    max_depth,      \* crawl argument
    max_pages,      \* crawl argument
    interval,       \* self._interval, ms
    last_req,       \* self._last_req, ms
    now,            \* time.monotonic(), ms
    queue,          \* BFS queue of <<url, depth>>
    visited,        \* set of normalized keys
    pages,          \* result.pages
    crawled_count,  \* result.crawled_count
    errors,         \* result.errors
    error_count,    \* result.error_count
    pc,             \* position in crawl: loop, rate, fetch, handle, done;
                    \* raised when an exception has left crawl
    url,            \* the popped entry's url
    depth,          \* the popped entry's depth
    attempt,        \* loop variable of _fetch_page_with_retry
    ret,            \* what _fetch_page_with_retry returned
    tried,          \* the attempts made for the url last fetched: outcome,
                    \* error returned, whether _fetch_page raised
    reqLog,         \* every client.get issued: url, attempt, start time
    urls,           \* extract_urls argument
    concurrency,    \* extract_urls argument
    sem,            \* the value of the semaphore of extract_urls
    task,           \* position of each _fetch_one: waiting, inflight, done
    served,         \* the outcome of the request of each _fetch_one
    results,        \* what each _fetch_one returned
    order,          \* the indices of the _fetch_one calls, as they completed
    bpc,            \* position in extract_urls: idle, start, gather, done;
                    \* raised when an exception has left extract_urls
    out,            \* the list extract_urls returned
    fn,             \* the function or request model called on its own
    args,           \* what it is called with
    result,         \* the values it has returned so far
    cur,            \* which of two concurrent crawls is running: 1 or 2;
                    \* 0 when there is one crawl at most
    other           \* the suspended crawl: its agent's fields and the locals
                    \* of its crawl call

\* the state of one extract_urls call
bulk == <<urls, concurrency, sem, task, served, results, order, bpc, out>>

\* the state of a call of one of the module's functions on its own
lib == <<fn, args, result>>

\* no such call is being made
LibIdle ==
    /\ fn = "idle"
    /\ args = << >>
    /\ result = << >>

\* the second of two concurrent requests to crawl_site
peer == <<cur, other>>

\* there is no second crawl
PeerIdle ==
    /\ cur = 0
    /\ other = << >>

vars == <<site, start_url, max_depth, max_pages, interval, last_req, now,
          queue, visited, pages, crawled_count, errors, error_count,
          pc, url, depth, attempt, ret, tried, reqLog, bulk, lib, peer>>

config == <<site, start_url, max_depth, max_pages, interval>>

\* base_domain = urlparse(start_url).netloc
base_domain == urlparse(start_url).netloc

NoResult == [page_data |-> None, links |-> << >>, error |-> None]

\* CrawlerAgent.__init__: self._interval = 1.0 / max(rate_limit, 0.1)
IntervalMs(rateTenths) ==
    10000 \div (IF rateTenths > 1 THEN rateTenths ELSE 1)

\* no crawl is running
CrawlIdle ==
    /\ site = "scenario"
    /\ start_url = U_root
    /\ max_depth = 0
    /\ max_pages = 0
    /\ interval = IntervalMs(10)
    /\ last_req = 0
    /\ now = 0
    /\ queue = << >>
    /\ visited = {}
    /\ pages = << >>
    /\ crawled_count = 0
    /\ errors = << >>
    /\ error_count = 0
    /\ pc = "idle"
    /\ url = << >>
    /\ depth = 0
    /\ attempt = 0
    /\ ret = NoResult
    /\ tried = << >>
    /\ reqLog = << >>

\* no bulk extraction is running
BulkIdle ==
    /\ urls = << >>
    /\ concurrency = 1
    /\ sem = 0
    /\ task = << >>
    /\ served = << >>
    /\ results = << >>
    /\ order = << >>
    /\ bpc = "idle"
    /\ out = << >>

Init ==
    /\ site \in SiteNames
    /\ start_url \in Seeds
    /\ max_depth \in -1..MaxDepthBound
    /\ max_pages \in -1..MaxPagesBound
    /\ interval \in {IntervalMs(r) : r \in RateTenths}
    /\ last_req = 0
    /\ now \in StartClocks
    /\ queue = <<<<start_url, 0>>>>
    /\ visited = {}
    /\ pages = << >>
    /\ crawled_count = 0
    /\ errors = << >>
    /\ error_count = 0
    /\ pc = "loop"
    /\ url = << >>
    /\ depth = 0
    /\ attempt = 0
    /\ ret = NoResult
    /\ tried = << >>
    /\ reqLog = << >>
    /\ urls = << >>
    /\ concurrency = 1
    /\ sem = 0
    /\ task = << >>
    /\ served = << >>
    /\ results = << >>
    /\ order = << >>
    /\ bpc = "idle"
    /\ out = << >>
    /\ LibIdle
    /\ PeerIdle

(***************************************************************************)
(* CrawlerAgent.crawl                                                      *)
(***************************************************************************)

\* the guard counting every URL requested instead of the pages accepted
LoopGuard_counts_requests == queue # << >> /\ Cardinality(visited) < max_pages

\* the guard with <= for <: one page too many
LoopGuard_inclusive == queue # << >> /\ crawled_count <= max_pages

\* while queue and result.crawled_count < max_pages
LoopGuard == queue # << >> /\ crawled_count < max_pages

\* the membership test on the raw url instead of its key
IsVisited_raw(u) == u \in visited

\* if norm in visited
IsVisited(u) == _normalize_url(u) \in visited

\* a visited entry read from the head of the queue but not removed
PopVisited_keeps ==
    /\ pc = "loop"
    /\ LoopGuard
    /\ IsVisited(Head(queue)[1])
    /\ queue' = queue
    /\ url' = Head(queue)[1]
    /\ depth' = Head(queue)[2]
    /\ UNCHANGED <<bulk, lib, peer, config, last_req, now, visited, pages, crawled_count,
                   errors, error_count, pc, attempt, ret, tried, reqLog>>

\* pop(0) of an entry whose key is already visited: continue
PopVisited ==
    /\ pc = "loop"
    /\ LoopGuard
    /\ IsVisited(Head(queue)[1])
    /\ queue' = Tail(queue)
    /\ url' = Head(queue)[1]
    /\ depth' = Head(queue)[2]
    /\ UNCHANGED <<bulk, lib, peer, config, last_req, now, visited, pages, crawled_count,
                   errors, error_count, pc, attempt, ret, tried, reqLog>>

\* pop(0) of an entry with a new key: visited.add(norm), on to _rate_wait
PopFresh ==
    /\ pc = "loop"
    /\ LoopGuard
    /\ ~IsVisited(Head(queue)[1])
    /\ queue' = Tail(queue)
    /\ url' = Head(queue)[1]
    /\ depth' = Head(queue)[2]
    /\ visited' = visited \cup {_normalize_url(Head(queue)[1])}
    /\ pc' = "rate"
    /\ UNCHANGED <<bulk, lib, peer, config, last_req, now, pages, crawled_count,
                   errors, error_count, attempt, ret, tried, reqLog>>

\* CrawlerAgent._rate_wait, then entering _fetch_page_with_retry
RateWait ==
    /\ pc = "rate"
    /\ LET elapsed == now - last_req
           wait == interval - elapsed
       IN  now' = IF wait > 0 THEN now + wait ELSE now
    /\ last_req' = now'
    /\ attempt' = 0
    /\ tried' = << >>
    /\ pc' = "fetch"
    /\ UNCHANGED <<bulk, lib, peer, config, queue, visited, pages, crawled_count,
                   errors, error_count, url, depth, ret, reqLog>>

\* how long the request with outcome o takes
Durations(o) ==
    IF o.exc = "TimeoutException" THEN {TimeoutMs} ELSE {ReqMs}

\* the attempt ceiling off by one: a fourth attempt is made
Returns_extra_attempt(error, att) ==
    \/ error.none
    \/ att > max_retries
    \/ ~is_retryable(error.val)

\* whether the retry loop returns after an attempt with this error
Returns(error, att) ==
    \/ error.none
    \/ att >= max_retries
    \/ ~is_retryable(error.val)

\* one iteration of _fetch_page_with_retry that returns to crawl
FetchReturn ==
    /\ pc = "fetch"
    /\ \E o \in Site(site).serves[url] : \E d \in Durations(o) :
         LET r == _fetch_page(site, url, o)
         IN  /\ ~_fetch_page_raises(site, url, o)
             /\ Returns(r.error, attempt)
             /\ ret' = r
             /\ tried' = Append(tried, [o |-> o, error |-> r.error,
                                        raised |-> FALSE])
             /\ now' = now + d
             /\ reqLog' = Append(reqLog, [url |-> url, attempt |-> attempt,
                                          start |-> now, end |-> now + d])
    /\ pc' = "handle"
    /\ UNCHANGED <<bulk, lib, peer, config, last_req, queue, visited, pages, crawled_count,
                   errors, error_count, url, depth, attempt>>

\* the retry issued without awaiting the request before it
FetchRetry_overlapping ==
    /\ pc = "fetch"
    /\ \E o \in Site(site).serves[url] : \E d \in Durations(o) :
         LET r == _fetch_page(site, url, o)
         IN  /\ ~_fetch_page_raises(site, url, o)
             /\ ~Returns(r.error, attempt)
             /\ tried' = Append(tried, [o |-> o, error |-> r.error,
                                        raised |-> FALSE])
             /\ now' = now
             /\ reqLog' = Append(reqLog, [url |-> url, attempt |-> attempt,
                                          start |-> now, end |-> now + d])
    /\ attempt' = attempt + 1
    /\ UNCHANGED <<bulk, lib, peer, config, last_req, queue, visited, pages, crawled_count,
                   errors, error_count, pc, url, depth, ret>>

\* one iteration of _fetch_page_with_retry that sleeps and goes round again
FetchRetry ==
    /\ pc = "fetch"
    /\ \E o \in Site(site).serves[url] : \E d \in Durations(o) :
         LET r == _fetch_page(site, url, o)
         IN  /\ ~_fetch_page_raises(site, url, o)
             /\ ~Returns(r.error, attempt)
             /\ tried' = Append(tried, [o |-> o, error |-> r.error,
                                        raised |-> FALSE])
             /\ now' = now + d + BackoffMs(attempt)
             /\ reqLog' = Append(reqLog, [url |-> url, attempt |-> attempt,
                                          start |-> now, end |-> now + d])
    /\ attempt' = attempt + 1
    /\ UNCHANGED <<bulk, lib, peer, config, last_req, queue, visited, pages, crawled_count,
                   errors, error_count, pc, url, depth, ret>>

\* the error branch leaving the loop instead of continuing
HandleError_abort ==
    /\ pc = "handle"
    /\ Truthy(ret.error)
    /\ errors' = Append(errors, [url |-> url, error |-> ret.error.val])
    /\ error_count' = error_count + 1
    /\ pc' = "done"
    /\ UNCHANGED <<bulk, lib, peer, config, last_req, now, queue, visited, pages,
                   crawled_count, url, depth, attempt, ret, tried, reqLog>>

\* an attempt in which _fetch_page raises: neither _fetch_page_with_retry nor
\* crawl catches the exception, so it leaves crawl and no result is returned
FetchRaise ==
    /\ pc = "fetch"
    /\ \E o \in Site(site).serves[url] : \E d \in Durations(o) :
         /\ _fetch_page_raises(site, url, o)
         /\ tried' = Append(tried, [o |-> o, error |-> None, raised |-> TRUE])
         /\ now' = now + d
         /\ reqLog' = Append(reqLog, [url |-> url, attempt |-> attempt,
                                      start |-> now, end |-> now + d])
    /\ pc' = "raised"
    /\ UNCHANGED <<bulk, lib, peer, config, last_req, queue, visited, pages, crawled_count,
                   errors, error_count, url, depth, attempt, ret>>

\* if error: record it and continue
HandleError ==
    /\ pc = "handle"
    /\ Truthy(ret.error)
    /\ errors' = Append(errors, [url |-> url, error |-> ret.error.val])
    /\ error_count' = error_count + 1
    /\ pc' = "loop"
    /\ UNCHANGED <<bulk, lib, peer, config, last_req, now, queue, visited, pages,
                   crawled_count, url, depth, attempt, ret, tried, reqLog>>

\* the kept links appended last-discovered first
Enqueued_reversed(links, d) ==
    LET keep(link) == /\ _same_domain(link, base_domain)
                      /\ _normalize_url(link) \notin visited
        kept == SelectSeq(links, keep)
    IN  [i \in 1..Len(kept) |-> <<kept[Len(kept) + 1 - i], d + 1>>]

\* the kept links appended at the depth of the page they were found on
Enqueued_same_depth(links, d) ==
    LET keep(link) == /\ _same_domain(link, base_domain)
                      /\ _normalize_url(link) \notin visited
        kept == SelectSeq(links, keep)
    IN  [i \in 1..Len(kept) |-> <<kept[i], d>>]

\* the links of an accepted page that crawl appends to the queue
Enqueued(links, d) ==
    LET keep(link) == /\ _same_domain(link, base_domain)
                      /\ _normalize_url(link) \notin visited
        kept == SelectSeq(links, keep)
    IN  [i \in 1..Len(kept) |-> <<kept[i], d + 1>>]

\* the depth test with <= for <
GoDeeper_inclusive(d) == d <= max_depth

\* if depth < max_depth: links of a page at depth d may be enqueued
GoDeeper(d) == d < max_depth

\* if page_data: accept the page and enqueue its internal links
HandlePage ==
    /\ pc = "handle"
    /\ ~Truthy(ret.error)
    /\ ~ret.page_data.none
    /\ pages' = Append(pages, ret.page_data.val)
    /\ crawled_count' = crawled_count + 1
    /\ queue' = IF GoDeeper(depth) /\ ret.links # << >>
                THEN queue \o Enqueued(ret.links, depth)
                ELSE queue
    /\ pc' = "loop"
    /\ UNCHANGED <<bulk, lib, peer, config, last_req, now, visited, errors, error_count,
                   url, depth, attempt, ret, tried, reqLog>>

\* the silent skip appending the links of the page that was skipped
HandleSkip_enqueues ==
    /\ pc = "handle"
    /\ ~Truthy(ret.error)
    /\ ret.page_data.none
    /\ queue' = queue \o Enqueued(_extract_links(site, Site(site).final[url]),
                                  depth)
    /\ pc' = "loop"
    /\ UNCHANGED <<bulk, lib, peer, config, last_req, now, visited, pages,
                   crawled_count, errors, error_count, url, depth, attempt,
                   ret, tried, reqLog>>

\* neither an error nor page data: nothing is recorded
HandleSkip ==
    /\ pc = "handle"
    /\ ~Truthy(ret.error)
    /\ ret.page_data.none
    /\ pc' = "loop"
    /\ UNCHANGED <<bulk, lib, peer, config, last_req, now, queue, visited, pages,
                   crawled_count, errors, error_count, url, depth, attempt,
                   ret, tried, reqLog>>

\* the loop guard fails: return result
Return ==
    /\ pc = "loop"
    /\ ~LoopGuard
    /\ pc' = "done"
    /\ UNCHANGED <<bulk, lib, peer, config, last_req, now, queue, visited, pages,
                   crawled_count, errors, error_count, url, depth, attempt,
                   ret, tried, reqLog>>

Next ==
    \/ PopVisited
    \/ PopFresh
    \/ RateWait
    \/ FetchReturn
    \/ FetchRetry
    \/ FetchRaise
    \/ HandleError
    \/ HandlePage
    \/ HandleSkip
    \/ Return

Spec == Init /\ [][Next]_vars

(***************************************************************************)
(* Two concurrent requests to crawl_site                                   *)
(***************************************************************************)

\* what one crawl invocation owns: the fields of the CrawlerAgent that
\* crawl_site creates for it and the locals of its crawl call
Frame ==
    [site |-> site, start_url |-> start_url, max_depth |-> max_depth,
     max_pages |-> max_pages, interval |-> interval, last_req |-> last_req,
     queue |-> queue, visited |-> visited, pages |-> pages,
     crawled_count |-> crawled_count, errors |-> errors,
     error_count |-> error_count, pc |-> pc, url |-> url, depth |-> depth,
     attempt |-> attempt, ret |-> ret, tried |-> tried, reqLog |-> reqLog]

\* the frame of a crawl that crawl_site has just called
NewFrame(siteName, seed, d, p, rateTenths) ==
    [site |-> siteName, start_url |-> seed, max_depth |-> d,
     max_pages |-> p, interval |-> IntervalMs(rateTenths), last_req |-> 0,
     queue |-> <<<<seed, 0>>>>, visited |-> {}, pages |-> << >>,
     crawled_count |-> 0, errors |-> << >>, error_count |-> 0,
     pc |-> "loop", url |-> << >>, depth |-> 0, attempt |-> 0,
     ret |-> NoResult, tried |-> << >>, reqLog |-> << >>]

\* the frame f resumed on an agent that both crawls use: one _last_req
Resumed_shared_agent(f) ==
    /\ site' = f.site
    /\ start_url' = f.start_url
    /\ max_depth' = f.max_depth
    /\ max_pages' = f.max_pages
    /\ interval' = f.interval
    /\ last_req' = last_req
    /\ queue' = f.queue
    /\ visited' = f.visited
    /\ pages' = f.pages
    /\ crawled_count' = f.crawled_count
    /\ errors' = f.errors
    /\ error_count' = f.error_count
    /\ pc' = f.pc
    /\ url' = f.url
    /\ depth' = f.depth
    /\ attempt' = f.attempt
    /\ ret' = f.ret
    /\ tried' = f.tried
    /\ reqLog' = f.reqLog

\* the frame f is the one in the registers after the step
Resumed(f) ==
    /\ site' = f.site
    /\ start_url' = f.start_url
    /\ max_depth' = f.max_depth
    /\ max_pages' = f.max_pages
    /\ interval' = f.interval
    /\ last_req' = f.last_req
    /\ queue' = f.queue
    /\ visited' = f.visited
    /\ pages' = f.pages
    /\ crawled_count' = f.crawled_count
    /\ errors' = f.errors
    /\ error_count' = f.error_count
    /\ pc' = f.pc
    /\ url' = f.url
    /\ depth' = f.depth
    /\ attempt' = f.attempt
    /\ ret' = f.ret
    /\ tried' = f.tried
    /\ reqLog' = f.reqLog

\* two requests arrive together: one crawl of the alias site at 1 request per
\* second and one of the seed of the chain site at 0.1 requests per second
InitTwo ==
    /\ cur = 1
    /\ site = "alias"
    /\ start_url = U_root
    /\ max_depth = MaxDepthBound
    /\ max_pages = MaxPagesBound
    /\ interval = IntervalMs(10)
    /\ last_req = 0
    /\ now = 0
    /\ queue = <<<<start_url, 0>>>>
    /\ visited = {}
    /\ pages = << >>
    /\ crawled_count = 0
    /\ errors = << >>
    /\ error_count = 0
    /\ pc = "loop"
    /\ url = << >>
    /\ depth = 0
    /\ attempt = 0
    /\ ret = NoResult
    /\ tried = << >>
    /\ reqLog = << >>
    /\ other = NewFrame("chain", U_www_root, 1, 2, 1)
    /\ BulkIdle
    /\ LibIdle

\* the positions at which crawl awaits or has ended: only there does the event
\* loop run another coroutine
AtAwait(p) == p \in {"rate", "fetch", "done", "raised"}

\* the event loop suspends the running crawl and resumes the other one
Switch ==
    /\ cur \in {1, 2}
    /\ AtAwait(pc)
    /\ other.pc \notin {"done", "raised"}
    /\ cur' = 3 - cur
    /\ other' = Frame
    /\ Resumed(other)
    /\ UNCHANGED <<now, bulk, lib>>

NextTwo ==
    \/ Next
    \/ Switch

SpecTwo == InitTwo /\ [][NextTwo]_vars

(***************************************************************************)
(* Content extraction: _extract_page_data and its helpers                  *)
(***************************************************************************)

\* the caps of the extractor, scaled down: _MAX_CONTENT_CHARS is 100_000,
\* _EXCERPT_CHARS 300 and the title cap 500 in the source
_MAX_CONTENT_CHARS == 4
_EXCERPT_CHARS == 2
TitleChars == 3
\* longest text of a page's main container
MaxTextLen == 5

\* the characters str.split() and str.strip() take for whitespace
Whitespace == {" ", "\n"}
TextChars == {"a"} \cup Whitespace

\* s.lstrip() and s.strip()
RECURSIVE LStripWs(_)
LStripWs(s) ==
    IF s # << >> /\ Head(s) \in Whitespace THEN LStripWs(Tail(s)) ELSE s

RECURSIVE RStripWs(_)
RStripWs(s) ==
    IF s # << >> /\ s[Len(s)] \in Whitespace
    THEN RStripWs(SubSeq(s, 1, Len(s) - 1))
    ELSE s

Strip(s) == RStripWs(LStripWs(s))

\* how many characters the first word of s has, s starting with none of
\* whitespace
RECURSIVE WordLen(_)
WordLen(s) ==
    IF s = << >> \/ Head(s) \in Whitespace THEN 0 ELSE 1 + WordLen(Tail(s))

\* s.split(): the words between runs of whitespace
RECURSIVE Split(_)
Split(s) ==
    LET t == LStripWs(s)
    IN  IF t = << >>
        THEN << >>
        ELSE <<SubSeq(t, 1, WordLen(t))>>
             \o Split(SubSeq(t, WordLen(t) + 1, Len(t)))

\* " ".join(words)
RECURSIVE JoinSpace(_)
JoinSpace(words) ==
    IF words = << >>
    THEN << >>
    ELSE IF Len(words) = 1
    THEN words[1]
    ELSE words[1] \o <<" ">> \o JoinSpace(Tail(words))

\* whitespace-collapse: " ".join(s.split())
Collapse(s) == JoinSpace(Split(s))

\* a parsed document, as far as the extractor looks at it: the content of the
\* og:title and twitter:title meta tags, the text of <title> and of the first
\* <h1>, and the text of each candidate for the main container that is left
\* after noise removal (<main>, <article>, the first element whose id and the
\* first whose class matches a content keyword, <body>); None where the
\* document has no such tag
Doc(og, tw, title, h1, main) ==
    [og |-> og, tw |-> tw, title |-> title, h1 |-> h1, main |-> main,
     article |-> None, by_id |-> None, by_class |-> None, body |-> None]

\* the document doc with these candidates for the main container
WithContainers(doc, main, article, by_id, by_class, body) ==
    [doc EXCEPT !.main = main, !.article = article, !.by_id = by_id,
                !.by_class = by_class, !.body = body]

\* _get_title: a meta tag counts when its content is not empty, a <title> or
\* <h1> tag when it is there
_get_title(doc) ==
    IF Truthy(doc.og)
    THEN Some(Slice(Strip(doc.og.val), 0, TitleChars))
    ELSE IF Truthy(doc.tw)
    THEN Some(Slice(Strip(doc.tw.val), 0, TitleChars))
    ELSE IF ~doc.title.none
    THEN Some(Slice(Strip(doc.title.val), 0, TitleChars))
    ELSE IF ~doc.h1.none
    THEN Some(Slice(Strip(doc.h1.val), 0, TitleChars))
    ELSE None

\* the `or` chain of _get_main_content: the first candidate that is there; a
\* tag is truthy whatever it holds, so an empty one ends the chain too
main_container(doc) ==
    IF ~doc.main.none THEN doc.main
    ELSE IF ~doc.article.none THEN doc.article
    ELSE IF ~doc.by_id.none THEN doc.by_id
    ELSE IF ~doc.by_class.none THEN doc.by_class
    ELSE doc.body

\* _get_main_content returning the collapsed text whole
_get_main_content_uncut(doc) ==
    LET main == main_container(doc)
    IN  IF main.none
        THEN [raw_content |-> << >>, word_count |-> 0]
        ELSE [raw_content |-> Collapse(main.val),
              word_count |-> Len(Split(Collapse(main.val)))]

\* _get_main_content: the collapsed text of the main container, cut to the
\* cap, and the number of words of the text before the cut
_get_main_content(doc) ==
    LET main == main_container(doc)
    IN  IF main.none
        THEN [raw_content |-> << >>, word_count |-> 0]
        ELSE [raw_content |-> Slice(Collapse(main.val), 0, _MAX_CONTENT_CHARS),
              word_count |-> Len(Split(Collapse(main.val)))]

\* the PageData _extract_page_data builds from a document and its URL
PageData(doc, page_url) ==
    LET title == _get_title(doc)
        content == _get_main_content(doc)
    IN  [url |-> page_url,
         title |-> IF Truthy(title) THEN title.val ELSE page_url,
         raw_content |-> content.raw_content,
         word_count |-> content.word_count,
         excerpt |-> IF content.raw_content # << >>
                     THEN Some(Strip(Slice(content.raw_content, 0,
                                           _EXCERPT_CHARS)))
                     ELSE None]

\* the documents the extractor is run on
Texts == UNION {[1..n -> TextChars] : n \in 0..MaxTextLen}
MetaContents == {None, Some(<< >>), Some(<<" ">>), Some(<<"O", " ">>)}
TitleTexts ==
    {None, Some(<< >>), Some(<<" ">>), Some(<<" ", "T">>),
     Some(<<"T", "i", "t", "l", "e">>)}
HeadingTexts == {None, Some(<< >>), Some(<<"H">>)}
TitleDocs ==
    {Doc(og, tw, t, h, Some(<<"a">>)) :
        og \in MetaContents, tw \in {None, Some(<<"W">>)},
        t \in TitleTexts, h \in HeadingTexts}
ContentDocs ==
    {Doc(None, None, Some(<<"T">>), None, m) :
        m \in {None} \cup {Some(x) : x \in Texts}}
\* documents with every combination of candidates for the main container:
\* each is absent, empty, or holds a word of its own; every other candidate
\* is inside <body>, so <body> is there when one of them is and has text when
\* one of them has
ContainerTexts(word) == {None, Some(<< >>), Some(<<" ">>), Some(<<word>>)}
ContainerDocs ==
    {WithContainers(Doc(None, None, Some(<<"T">>), None, None), m, a, i, c, b) :
        <<m, a, i, c, b>> \in
            {t \in ContainerTexts("m") \X ContainerTexts("r")
                   \X ContainerTexts("i") \X ContainerTexts("c")
                   \X ContainerTexts("b") :
                /\ (\E k \in 1..4 : ~t[k].none) => ~t[5].none
                /\ (\E k \in 1..4 : Truthy(t[k]) /\ Strip(t[k].val) # << >>)
                      => t[5] = Some(<<"b">>)}}
Docs == TitleDocs \cup ContentDocs \cup ContainerDocs

(***************************************************************************)
(* extract_urls: bulk extraction                                           *)
(***************************************************************************)

MaxUrls == 3
MaxConcurrency == 2

\* the URLs a bulk list is drawn from; the www. host redirects to the apex
BulkUrls == {U_root, U_www_root, U_ext}
BulkFinal == [u \in BulkUrls |-> IF u = U_www_root THEN U_root ELSE u]
BulkServes ==
    [u \in BulkUrls |->
        CASE u = U_root -> {O_ok, O_timeout, O_redirects}
          [] u = U_www_root -> {O_ok, O_404, O_pdf}
          [] OTHER -> {O_ok, O_pdf_503, O_reset, O_empty}]

\* the document served at each URL: an empty <title> before an <h1>, a
\* whitespace-only og:title, and a page with a title and a main text
BulkDocs ==
    [u \in BulkUrls |->
        CASE u = U_root -> Doc(None, None, Some(<< >>), Some(<<"H">>),
                               Some(<<"a", " ", "a">>))
          [] u = U_www_root -> Doc(Some(<<" ">>), None, None, None, None)
          [] OTHER -> Doc(None, None, Some(<<"T">>), None, Some(<<"a">>))]

\* _extract_page_data(soup, str(resp.url)) for the page served at each URL
BulkPages == [u \in BulkUrls |-> PageData(BulkDocs[u], u)]

\* the input lists: every list of at most MaxUrls URLs, duplicates included
UrlLists == UNION {[1..n -> BulkUrls] : n \in 0..MaxUrls}

S_non_html ==
    <<"n", "o", "n", "-", "H", "T", "M", "L", " ", "c", "o", "n", "t", "e",
      "n", "t", "-", "t", "y", "p", "e", ":", " ">>

\* ExtractResult(url=..., error=...) and ExtractResult(url=..., title=..., ...)
ExtractError(u, error) == [url |-> u, page |-> None, error |-> Some(error)]
ExtractPage(u, page) == [url |-> u, page |-> Some(page), error |-> None]

\* a request not yet answered, a _fetch_one that has not returned
O_pending == Raises("pending", << >>)
NoEntry == [url |-> << >>, page |-> None, error |-> None]

\* _fetch_one with the content type tested before the status, as _fetch_page
\* does
_fetch_one_type_first(u, o) ==
    IF o.exc = "TimeoutException" THEN ExtractError(u, S_timeout)
    ELSE IF o.exc = "TooManyRedirects" THEN ExtractError(u, S_too_many_redirects)
    ELSE IF o.exc = "RequestError" THEN ExtractError(u, o.msg)
    ELSE IF ~Contains(o.ctype, S_text_html)
    THEN ExtractError(u, S_non_html \o Slice(o.ctype, 0, 60))
    ELSE IF o.status >= 400
    THEN ExtractError(u, S_HTTP_sp \o IntToStr(o.status))
    ELSE ExtractPage(u, BulkPages[BulkFinal[u]])

\* _fetch_one(client, url): the ExtractResult of one outcome
_fetch_one(u, o) ==
    IF o.exc = "TimeoutException" THEN ExtractError(u, S_timeout)
    ELSE IF o.exc = "TooManyRedirects" THEN ExtractError(u, S_too_many_redirects)
    ELSE IF o.exc = "RequestError" THEN ExtractError(u, o.msg)
    ELSE IF o.status >= 400
    THEN ExtractError(u, S_HTTP_sp \o IntToStr(o.status))
    ELSE IF ~Contains(o.ctype, S_text_html)
    THEN ExtractError(u, S_non_html \o Slice(o.ctype, 0, 60))
    ELSE ExtractPage(u, BulkPages[BulkFinal[u]])

\* _fetch_one raises instead of returning: an HTML response below status 400
\* whose extraction raises; nothing in _fetch_one catches it
_fetch_one_raises(u, o) ==
    /\ o.exc = "none"
    /\ o.status < 400
    /\ Contains(o.ctype, S_text_html)
    /\ _extract_page_data_raises(BulkFinal[u])

InitBulk ==
    /\ urls \in UrlLists
    /\ concurrency \in -1..MaxConcurrency
    /\ sem = 0
    /\ task = [i \in 1..Len(urls) |-> "waiting"]
    /\ served = [i \in 1..Len(urls) |-> O_pending]
    /\ results = [i \in 1..Len(urls) |-> NoEntry]
    /\ order = << >>
    /\ bpc = "start"
    /\ out = << >>
    /\ site = "scenario"
    /\ start_url = U_root
    /\ max_depth = 0
    /\ max_pages = 0
    /\ interval = IntervalMs(10)
    /\ last_req = 0
    /\ now = 0
    /\ queue = << >>
    /\ visited = {}
    /\ pages = << >>
    /\ crawled_count = 0
    /\ errors = << >>
    /\ error_count = 0
    /\ pc = "idle"
    /\ url = << >>
    /\ depth = 0
    /\ attempt = 0
    /\ ret = NoResult
    /\ tried = << >>
    /\ reqLog = << >>
    /\ LibIdle
    /\ PeerIdle

\* what no step of extract_urls touches
crawlState == <<site, start_url, max_depth, max_pages, interval, last_req, now,
                queue, visited, pages, crawled_count, errors, error_count,
                pc, url, depth, attempt, ret, tried, reqLog, cur, other>>

\* sem = asyncio.Semaphore(concurrency) raises ValueError for a negative value
BulkSemRaise ==
    /\ bpc = "start"
    /\ concurrency < 0
    /\ bpc' = "raised"
    /\ UNCHANGED <<crawlState, lib, urls, concurrency, sem, task, served, results,
                   order, out>>

\* the semaphore is created, the _fetch_one calls are handed to gather
BulkStart ==
    /\ bpc = "start"
    /\ concurrency >= 0
    /\ sem' = concurrency
    /\ bpc' = "gather"
    /\ UNCHANGED <<crawlState, lib, urls, concurrency, task, served, results,
                   order, out>>

\* a call entering the block without a free permit
Acquire_unguarded(i) ==
    /\ bpc \in {"gather", "raised"}
    /\ task[i] = "waiting"
    /\ \A j \in 1..(i - 1) : task[j] # "waiting"
    /\ sem' = sem - 1
    /\ task' = [task EXCEPT ![i] = "inflight"]
    /\ UNCHANGED <<crawlState, lib, urls, concurrency, served, results, order,
                   bpc, out>>

\* async with sem: a permit is taken; the calls reach the semaphore in list
\* order and waiters are woken first come, first served.  The calls keep
\* running after an exception of another call has left extract_urls.
Acquire(i) ==
    /\ bpc \in {"gather", "raised"}
    /\ task[i] = "waiting"
    /\ \A j \in 1..(i - 1) : task[j] # "waiting"
    /\ sem > 0
    /\ sem' = sem - 1
    /\ task' = [task EXCEPT ![i] = "inflight"]
    /\ UNCHANGED <<crawlState, lib, urls, concurrency, served, results, order,
                   bpc, out>>

\* the request of call i is answered, _fetch_one returns its ExtractResult
\* and the permit is given back
Complete(i) ==
    /\ bpc = "gather"
    /\ task[i] = "inflight"
    /\ \E o \in BulkServes[urls[i]] :
         /\ ~_fetch_one_raises(urls[i], o)
         /\ served' = [served EXCEPT ![i] = o]
         /\ results' = [results EXCEPT ![i] = _fetch_one(urls[i], o)]
    /\ sem' = sem + 1
    /\ task' = [task EXCEPT ![i] = "done"]
    /\ order' = Append(order, i)
    /\ UNCHANGED <<crawlState, lib, urls, concurrency, bpc, out>>

\* call i raises: gather, called without return_exceptions, passes the
\* exception on and it leaves extract_urls
FetchOneRaise(i) ==
    /\ bpc = "gather"
    /\ task[i] = "inflight"
    /\ \E o \in BulkServes[urls[i]] :
         /\ _fetch_one_raises(urls[i], o)
         /\ served' = [served EXCEPT ![i] = o]
    /\ sem' = sem + 1
    /\ task' = [task EXCEPT ![i] = "done"]
    /\ bpc' = "raised"
    /\ UNCHANGED <<crawlState, lib, urls, concurrency, results, order, out>>

\* after an exception has left extract_urls: a call still in its block leaves
\* it, giving its permit back; what it returns or raises reaches nobody
Abandon(i) ==
    /\ bpc = "raised"
    /\ task[i] = "inflight"
    /\ sem' = sem + 1
    /\ task' = [task EXCEPT ![i] = "done"]
    /\ UNCHANGED <<crawlState, lib, urls, concurrency, served, results, order,
                   bpc, out>>

\* the results in the order in which the calls completed
Gather_as_completed(res, ord) == [k \in 1..Len(ord) |-> res[ord[k]]]

\* asyncio.gather: the results in the order of the awaitables passed in
Gather(res, ord) == [k \in 1..Len(res) |-> res[k]]

\* every call has returned: return list(await asyncio.gather(*tasks))
BulkReturn ==
    /\ bpc = "gather"
    /\ \A i \in 1..Len(urls) : task[i] = "done"
    /\ out' = Gather(results, order)
    /\ bpc' = "done"
    /\ UNCHANGED <<crawlState, lib, urls, concurrency, sem, task, served, results,
                   order>>

NextBulk ==
    \/ BulkSemRaise
    \/ BulkStart
    \/ \E i \in 1..Len(urls) : Acquire(i)
    \/ \E i \in 1..Len(urls) : Complete(i)
    \/ \E i \in 1..Len(urls) : FetchOneRaise(i)
    \/ \E i \in 1..Len(urls) : Abandon(i)
    \/ BulkReturn

SpecBulk == InitBulk /\ [][NextBulk]_vars

\* each _fetch_one is an awaitable the event loop keeps running, and each
\* request returns: a step that stays possible is eventually taken
SpecBulkFair == SpecBulk /\ WF_vars(NextBulk)

(***************************************************************************)
(* The API layer: request models and endpoints of api/crawl.py             *)
(***************************************************************************)

\* longest URL list a request carries
MaxListLen == 52

\* the value a request carries for a numeric field: none (the default
\* applies and no validator runs), one that is no number (the type check
\* rejects the request), NaN for a float field, or a number; rate_limit is
\* counted in tenths of a request per second
Absent == [kind |-> "absent", v |-> 0]
NotANumber == [kind |-> "bad", v |-> 0]
NaN == [kind |-> "nan", v |-> 0]
Num(n) == [kind |-> "num", v |-> n]

\* Python's min(a, b) and max(a, b): the second argument is returned only when
\* the comparison with the first is true, and every comparison with NaN is
\* false
Less(a, b) == a.kind = "num" /\ b.kind = "num" /\ a.v < b.v
PyMin(a, b) == IF Less(b, a) THEN b ELSE a
PyMax(a, b) == IF Less(a, b) THEN b ELSE a

\* CrawlSiteRequest.clamp_depth, clamp_pages, clamp_rate and
\* ExtractRequest.clamp_concurrency
clamp_depth(v) == PyMax(Num(1), PyMin(v, Num(5)))
clamp_pages(v) == PyMax(Num(1), PyMin(v, Num(200)))
clamp_rate(v) == PyMax(Num(1), PyMin(v, Num(100)))
clamp_concurrency(v) == PyMax(Num(1), PyMin(v, Num(10)))

\* validate_urls returning the list whole
validate_urls_uncut(v) == v

\* ExtractRequest.validate_urls for a list that is not empty: v[:50]
validate_urls(v) == Slice(v, 0, 50)

\* the field defaults of the two request models
DefaultDepth == Num(2)
DefaultPages == Num(50)
DefaultRate == Num(10)
DefaultConcurrency == Num(5)

\* requests to POST /api/crawl/site
DepthValues == {Absent, NotANumber} \cup {Num(n) : n \in {-1, 0, 1, 3, 5, 6, 99}}
PagesValues == {Absent} \cup {Num(n) : n \in {-7, 0, 1, 50, 200, 201}}
RateValues ==
    {Absent, NaN} \cup {Num(n) : n \in {-1000000, -5, 0, 1, 7, 100, 101, 1000000}}
CrawlSiteRequests ==
    {[url |-> U_root, max_depth |-> d, max_pages |-> p, rate_limit |-> r] :
        d \in DepthValues, p \in PagesValues, r \in RateValues}

\* requests to POST /api/crawl/extract: lists of n URLs, all the same but the
\* one at position k
MarkedList(n, k) == [i \in 1..n |-> IF i = k THEN U_ext ELSE U_root]
ListLens == {0, 1, 2, 49, 50, 51, MaxListLen}
RequestLists == {MarkedList(n, k) : n \in ListLens, k \in {0, 1, 2, 50, 51}}
ConcurrencyValues ==
    {Absent, NotANumber} \cup {Num(n) : n \in {-3, 0, 1, 5, 10, 11}}
ExtractRequests ==
    {[urls |-> l, concurrency |-> c] :
        l \in RequestLists, c \in ConcurrencyValues}

\* a field after validation: the default when the request carries none, else
\* the validator's return value
Validated(value, default, clamped) ==
    IF value.kind = "absent" THEN default ELSE clamped

Rejected == [called |-> "rejected"]

\* crawl_site: the request model is validated, then
\* CrawlerAgent(rate_limit=req.rate_limit).crawl(start_url, max_depth, max_pages)
crawl_site(req) ==
    IF NotANumber \in {req.max_depth, req.max_pages, req.rate_limit}
    THEN Rejected
    ELSE [called |-> "crawl",
          start_url |-> req.url,
          max_depth |->
              Validated(req.max_depth, DefaultDepth,
                        clamp_depth(req.max_depth)).v,
          max_pages |->
              Validated(req.max_pages, DefaultPages,
                        clamp_pages(req.max_pages)).v,
          rate_limit |->
              Validated(req.rate_limit, DefaultRate,
                        clamp_rate(req.rate_limit)).v]

\* extract_content: the request model is validated (an empty list raises
\* ValueError), then extract_urls(req.urls, concurrency=req.concurrency)
extract_content(req) ==
    IF req.urls = << >> \/ req.concurrency = NotANumber
    THEN Rejected
    ELSE [called |-> "extract_urls",
          urls |-> validate_urls(req.urls),
          concurrency |->
              Validated(req.concurrency, DefaultConcurrency,
                        clamp_concurrency(req.concurrency)).v]

(***************************************************************************)
(* EntityExtractorAgent.extract of agents/extractor.py                     *)
(***************************************************************************)

_MAX_RETRIES == 3

_ENTITY_TYPE_VALUES ==
    {"BRAND", "PERSON", "ORGANIZATION", "TOPIC", "PRODUCT", "LOCATION",
     "CONCEPT", "OTHER"}

\* what one call of client.messages.create does: it raises RateLimitError
\* (status 429), another APIStatusError (529 overloaded, 400 bad request),
\* an exception that is no APIStatusError, or returns a response whose
\* tool_use block holds a list of entities
RateLimitError ==
    [exc |-> "RateLimitError", status |-> 429, entities |-> << >>]
APIStatusError(status) ==
    [exc |-> "APIStatusError", status |-> status, entities |-> << >>]
APIConnectionError ==
    [exc |-> "APIConnectionError", status |-> 0, entities |-> << >>]
ToolUse(raw_list) == [exc |-> "none", status |-> 200, entities |-> raw_list]

\* one entity of the tool input: its label, its type after upper(), and its
\* salience in tenths, or a value float() does not take
RawEntity(label, type, salience) ==
    [label |-> label, type |-> type, salience |-> salience]

\* ExtractedEntity(label=..., type=..., salience=...) of an entity that has a
\* label and a numeric salience
ExtractedEntity(e) ==
    [label |-> Strip(e.label),
     type |-> IF e.type \in _ENTITY_TYPE_VALUES THEN e.type ELSE "OTHER",
     salience |-> PyMax(Num(0), PyMin(Num(10), e.salience)).v]

\* the loop over raw_list: an entity without label is skipped, float() of a
\* salience that is no number raises, and nothing around the loop catches it
RECURSIVE parse_entities(_)
parse_entities(raw_list) ==
    IF raw_list = << >>
    THEN [raised |-> FALSE, entities |-> << >>]
    ELSE IF Strip(Head(raw_list).label) = << >>
    THEN parse_entities(Tail(raw_list))
    ELSE IF Head(raw_list).salience.kind # "num"
    THEN [raised |-> TRUE, entities |-> << >>]
    ELSE LET rest == parse_entities(Tail(raw_list))
         IN  [raised |-> rest.raised,
              entities |-> IF rest.raised
                           THEN << >>
                           ELSE <<ExtractedEntity(Head(raw_list))>>
                                \o rest.entities]

\* how a pass of the loop ends: with `continue` after a sleep of so many
\* seconds, with the return of an ItemExtractionResult (entities, or error),
\* or with an exception that leaves extract
Continue(n, r, seconds) ==
    [attempt |-> n, status |-> r.status, next |-> "continue",
     slept |-> seconds, entities |-> << >>, error |-> "None"]
ItemExtractionResult(n, r, entities, error) ==
    [attempt |-> n, status |-> r.status, next |-> "return",
     slept |-> 0, entities |-> entities, error |-> error]
Raised(n, r) ==
    [attempt |-> n, status |-> r.status, next |-> "raise",
     slept |-> 0, entities |-> << >>, error |-> "None"]

\* pass n of `for attempt in range(_MAX_RETRIES)`, the call being answered
\* with r
extract(n, r) ==
    IF r.exc = "RateLimitError"
    THEN IF n < _MAX_RETRIES - 1
         THEN Continue(n, r, 2 ^ n)
         ELSE ItemExtractionResult(n, r, << >>,
                                   "Rate limit exceeded after retries")
    ELSE IF r.exc = "APIStatusError"
    THEN ItemExtractionResult(n, r, << >>, "API error")
    ELSE IF r.exc # "none"
    THEN ItemExtractionResult(n, r, << >>, "str(exc)")
    ELSE IF parse_entities(r.entities).raised
    THEN Raised(n, r)
    ELSE ItemExtractionResult(n, r, parse_entities(r.entities).entities,
                              "None")

\* the answers the API gives to the calls of one extract
E_acme == RawEntity(<<"A">>, "BRAND", Num(15))
E_blank == RawEntity(<<" ">>, "TOPIC", NotANumber)
E_odd == RawEntity(<<"B", " ">>, "ALIEN", Num(-2))
E_high == RawEntity(<<"C">>, "TOPIC", NotANumber)
ApiAnswers ==
    {RateLimitError, APIStatusError(529), APIStatusError(400),
     APIConnectionError, ToolUse(<< >>), ToolUse(<<E_blank, E_acme, E_odd>>),
     ToolUse(<<E_acme, E_high>>)}
ApiScripts == [1.._MAX_RETRIES -> ApiAnswers]

(***************************************************************************)
(* The module's functions called on their own                              *)
(***************************************************************************)

\* the parts absolute URLs are put together from
UrlPrefixes == {<<"h", "t", "t", "p", "s", ":", "/", "/", "a", ".", "t", "e", "s", "t">>, <<"H", "T", "T", "P", "S", ":", "/", "/", "A", ".", "t", "e", "s", "t">>}
UrlPaths == {<< >>, <<"/">>, <<"/", "p">>, <<"/", "p", "/">>, <<"/", "P", "/", "q">>}
UrlParams == {<< >>, <<";", "a">>}
UrlQueries == {<< >>, <<"?", "x", "=", "1">>}
UrlFragments == {<< >>, <<"#", "f">>, <<"#", "f", "/">>}
S_slash == <<"/">>

\* prefix, path, params and query of absolute URLs without a fragment; params
\* need a path to follow
UrlParts ==
    {c \in UrlPrefixes \X UrlPaths \X UrlParams \X UrlQueries :
        c[3] # << >> => c[2] # << >>}

Joined(c) == c[1] \o c[2] \o c[3] \o c[4]

\* u and u followed by a slash
SlashPairs ==
    {[kind |-> "slash", u |-> <<Joined(c), Joined(c) \o S_slash>>] :
        c \in UrlParts}

\* the same URL with a slash more at the end of its path
PathSlashPairs ==
    {[kind |-> "path_slash",
      u |-> <<Joined(c) \o f,
              c[1] \o c[2] \o S_slash \o c[3] \o c[4] \o f>>] :
        c \in UrlParts, f \in UrlFragments}

\* the same URL with two fragments
FragmentPairs ==
    {[kind |-> "fragment", u |-> <<Joined(c) \o f[1], Joined(c) \o f[2]>>] :
        c \in UrlParts, f \in UrlFragments \X UrlFragments}

\* a URL to normalize twice: the second time the key itself is normalized
UrlTails == {<< >>, <<"/">>, <<";">>, <<";", "/">>, <<"/", ";", "b", "/">>}
TwiceInputs ==
    {[kind |-> "twice", u |-> <<Joined(c) \o e>>] :
        c \in UrlParts, e \in UrlTails}

\* two URLs that differ only in the letter case of host, path and query
CasePairs ==
    {[kind |-> "case", u |-> <<c[1] \o a[1] \o q[1], c[2] \o a[2] \o q[2]>>] :
        c \in UrlPrefixes \X UrlPrefixes,
        a \in {<<<<"/", "p">>, <<"/", "P">>>>, <<<<"/", "p", "/", "q">>, <<"/", "p", "/", "Q">>>>},
        q \in {<<<< >>, << >>>>, <<<<"?", "x", "=", "1">>, <<"?", "X", "=", "1">>>>}}

\* hosts of links and base domains
LinkHosts ==
    {<<"a", ".", "t", "e", "s", "t">>, <<"w", "w", "w", ".", "a", ".", "t", "e", "s", "t">>, <<"W", "W", "W", ".", "A", ".", "t", "e", "s", "t">>, <<"b", "l", "o", "g", ".", "a", ".", "t", "e", "s", "t">>, <<"b", ".", "t", "e", "s", "t">>,
     <<"w", "w", "w", ".", "w", "w", "w", ".", "a", ".", "t", "e", "s", "t">>, <<"a", ".", "t", "e", "s", "t", ":", "8", "0", "8", "0">>}
BaseDomains ==
    {<<"a", ".", "t", "e", "s", "t">>, <<"w", "w", "w", ".", "a", ".", "t", "e", "s", "t">>, <<"A", ".", "T", "e", "s", "t">>, <<"b", ".", "t", "e", "s", "t">>, <<"b", "l", "o", "g", ".", "a", ".", "t", "e", "s", "t">>,
     <<"a", ".", "t", "e", "s", "t", ":", "8", "0", "8", "0">>}
LinkTails == {<< >>, <<"/", "x">>, <<"?", "q", "=", "1">>, <<"/", "x", "#", "f">>}
S_https_slashes == <<"h", "t", "t", "p", "s", ":", "/", "/">>

ScopeInputs ==
    {[link |-> S_https_slashes \o h \o t, host |-> h, base |-> b] :
        h \in LinkHosts, b \in BaseDomains, t \in LinkTails}

InitLib ==
    /\ CrawlIdle
    /\ PeerIdle
    /\ BulkIdle
    /\ fn \in {"_normalize_url", "_same_domain", "_extract_page_data",
              "crawl_site", "extract_content", "extract"}
    /\ args \in IF fn = "_normalize_url"
                THEN SlashPairs \cup PathSlashPairs \cup FragmentPairs
                     \cup TwiceInputs \cup CasePairs
                ELSE IF fn = "_same_domain"
                THEN ScopeInputs
                ELSE IF fn = "_extract_page_data"
                THEN {[doc |-> d, url |-> U_root] : d \in Docs}
                ELSE IF fn = "crawl_site"
                THEN CrawlSiteRequests
                ELSE IF fn = "extract_content"
                THEN ExtractRequests
                ELSE {[script |-> a] : a \in ApiScripts}
    /\ result = << >>

\* _normalize_url applied to the next URL of the pair
Normalize ==
    /\ fn = "_normalize_url"
    /\ Len(result) < Len(args.u)
    /\ result' = Append(result, _normalize_url(args.u[Len(result) + 1]))
    /\ UNCHANGED <<crawlState, bulk, fn, args>>

\* _normalize_url applied to the key it returned
NormalizeAgain ==
    /\ fn = "_normalize_url"
    /\ args.kind = "twice"
    /\ Len(result) = 1
    /\ result' = Append(result, _normalize_url(result[1]))
    /\ UNCHANGED <<crawlState, bulk, fn, args>>

\* _same_domain applied to the link and the base domain
SameDomain ==
    /\ fn = "_same_domain"
    /\ result = << >>
    /\ result' = <<_same_domain(args.link, args.base)>>
    /\ UNCHANGED <<crawlState, bulk, fn, args>>

\* _extract_page_data applied to the document and its URL
ExtractPageData ==
    /\ fn = "_extract_page_data"
    /\ result = << >>
    /\ result' = <<PageData(args.doc, args.url)>>
    /\ UNCHANGED <<crawlState, bulk, fn, args>>

\* POST /api/crawl/site with the request
CrawlSite ==
    /\ fn = "crawl_site"
    /\ result = << >>
    /\ result' = <<crawl_site(args)>>
    /\ UNCHANGED <<crawlState, bulk, fn, args>>

\* POST /api/crawl/extract with the request
ExtractContent ==
    /\ fn = "extract_content"
    /\ result = << >>
    /\ result' = <<extract_content(args)>>
    /\ UNCHANGED <<crawlState, bulk, fn, args>>

\* EntityExtractorAgent.extract: the next pass of its loop, until a pass
\* returns or raises
Extract ==
    /\ fn = "extract"
    /\ Len(result) < _MAX_RETRIES
    /\ IF result = << >> THEN TRUE ELSE result[Len(result)].next = "continue"
    /\ result' = Append(result, extract(Len(result),
                                        args.script[Len(result) + 1]))
    /\ UNCHANGED <<crawlState, bulk, fn, args>>

NextLib ==
    \/ Normalize
    \/ NormalizeAgain
    \/ SameDomain
    \/ ExtractPageData
    \/ CrawlSite
    \/ ExtractContent
    \/ Extract

SpecLib == InitLib /\ [][NextLib]_vars

(***************************************************************************)
(* Properties                                                              *)
(***************************************************************************)

Last(q) == q[Len(q)]

\* error strings of the form "HTTP 5xx" and "HTTP 4xx"
Http5xx == {S_HTTP_sp \o IntToStr(n) : n \in 500..599}
Http4xx == {S_HTTP_sp \o IntToStr(n) : n \in 400..499}

\* the attempt failed with an error value in the set errs
FailedWith(t, errs) == ~t.error.none /\ t.error.val \in errs

\* the attempt failed with "HTTP 5xx" or with a description naming a connection
Transient(t) ==
    /\ ~t.error.none
    /\ \/ t.error.val \in Http5xx
       \/ Contains(Lower(t.error.val), S_connection)

\* the requests made so far for the url last fetched
RequestsOfLast ==
    SubSeq(reqLog, Len(reqLog) - Len(tried) + 1, Len(reqLog))

\* C1: with max_pages >= 1, at the top of every loop iteration and at return
\* len(pages) = crawled_count, len(errors) = error_count and
\* crawled_count <= max_pages.
C1_CountsAgree ==
    (max_pages >= 1 /\ pc \in {"loop", "done"}) =>
        /\ Len(pages) = crawled_count
        /\ Len(errors) = error_count
        /\ crawled_count <= max_pages

\* the page cap was reached with entries left in the frontier, after an error
C1_Witness ==
    /\ pc = "done"
    /\ max_pages >= 2
    /\ crawled_count = max_pages
    /\ queue # << >>
    /\ error_count >= 1

\* C2: no normalized key is fetched twice, and popping an entry whose key is
\* already visited makes no rate-limit wait and no request.
C2_NoKeyTwice ==
    \A i, j \in 1..Len(reqLog) :
        (i < j /\ reqLog[i].attempt = 0 /\ reqLog[j].attempt = 0) =>
            _normalize_url(reqLog[i].url) # _normalize_url(reqLog[j].url)

C2_FetchOncePerKey ==
    /\ []C2_NoKeyTwice
    /\ [][(pc = "loop" /\ LoopGuard
           /\ _normalize_url(Head(queue)[1]) \in visited) =>
             /\ pc' = "loop"
             /\ now' = now
             /\ last_req' = last_req
             /\ reqLog' = reqLog
             /\ visited' = visited]_vars

\* the entry https://A.test/Page2/#top was popped and discarded: its key was
\* visited through https://a.test/page2, and it was never requested
C2_Witness ==
    /\ pc = "loop"
    /\ url = U_page2_slash
    /\ \E i \in 1..Len(reqLog) : reqLog[i].url = U_page2
    /\ \A i \in 1..Len(reqLog) : reqLog[i].url # U_page2_slash

\* C3: with max_depth >= 0 every link pushed onto the frontier has depth
\* parent depth + 1 <= max_depth, and every url fetched or accepted was popped
\* at a depth <= max_depth.
C3_DepthBounded ==
    max_depth >= 0 =>
        /\ \A i \in 1..Len(queue) : queue[i][2] <= max_depth
        /\ pc \in {"rate", "fetch", "handle"} => depth <= max_depth

C3_Depth ==
    /\ []C3_DepthBounded
    /\ [][\A i \in (Len(queue) + 1)..Len(queue') :
            queue'[i][2] = depth + 1 /\ queue'[i][2] <= max_depth]_vars

\* a page with links was accepted at depth = max_depth = 2: none was enqueued
C3_Witness ==
    /\ pc = "loop"
    /\ max_depth = 2
    /\ depth = max_depth
    /\ ~ret.page_data.none
    /\ Len(ret.links) >= 2
    /\ Last(pages) = ret.page_data.val
    /\ queue = << >>

\* the host of a url, lower-cased
HostOf(u) == Lower(urlparse(u).netloc)

\* C4: every link that enters the frontier has a host equal to the seed's
\* host, or to www. + the seed's host, or the seed's host is www. + its host
\* (case-insensitively); with seed https://a.test/ and max_depth = 1, when
\* every request succeeds the crawl accepts / and /page2, and
\* https://b.test/ext is never enqueued or requested.
C4_InScope ==
    /\ \A i \in 1..Len(queue) :
         \/ queue[i] = <<start_url, 0>>
         \/ HostOf(queue[i][1]) = HostOf(start_url)
         \/ HostOf(queue[i][1]) = S_www_dot \o HostOf(start_url)
         \/ HostOf(start_url) = S_www_dot \o HostOf(queue[i][1])
    /\ \A i \in 1..Len(queue) : queue[i][1] # U_ext
    /\ \A i \in 1..Len(reqLog) : reqLog[i].url # U_ext
    /\ (/\ site = "scenario" /\ start_url = U_root
        /\ max_depth = 1 /\ max_pages >= 2
        /\ pc = "done" /\ Len(reqLog) = crawled_count) =>
           pages = <<[url |-> U_root], [url |-> U_page2]>>

\* the scenario crawl finished with every request successful: the page at /
\* carried the link to https://b.test/ext, and two pages were accepted
C4_Witness ==
    /\ site = "scenario" /\ start_url = U_root /\ max_depth = 1
    /\ pc = "done" /\ Len(reqLog) = crawled_count
    /\ Len(pages) = 2
    /\ pages[1].url = U_root
    /\ \E i \in 1..Len(Site(site).links[U_root]) :
         Site(site).links[U_root][i] = U_ext

\* C5: a url whose every attempt times out is requested three times before
\* the timeout is returned to crawl.
C5_TimeoutRetried ==
    (/\ pc = "handle"
     /\ \A i \in 1..Len(tried) : FailedWith(tried[i], {S_timeout})) =>
        Len(tried) = 3

\* C6: when every attempt for a url fails with "HTTP 5xx" or with a transport
\* error naming a connection, the fetcher is invoked exactly three times and
\* the error returned and recorded in errors is the third attempt's.
C6_TransientThreeTimes ==
    (/\ pc # "fetch"
     /\ tried # << >>
     /\ \A i \in 1..Len(tried) : Transient(tried[i])) =>
        /\ Len(tried) = 3
        /\ \A i \in 1..3 : /\ RequestsOfLast[i].attempt = i - 1
                           /\ RequestsOfLast[i].url = RequestsOfLast[1].url
        /\ ret.error = tried[3].error
        /\ pc # "handle" =>
             /\ errors # << >>
             /\ Last(errors) = [url |-> Last(reqLog).url,
                                error |-> tried[3].error.val]

\* three transient failures, the third not the first's error, were recorded
C6_Witness ==
    /\ pc = "loop"
    /\ Len(tried) = 3
    /\ \A i \in 1..3 : Transient(tried[i])
    /\ tried[1].error # tried[3].error
    /\ tried[2].error # tried[3].error
    /\ Last(errors).error = tried[3].error.val

\* C7: an attempt that returns "HTTP 4xx" or "too many redirects" is the last
\* one for its url: the error is returned at once, with no backoff sleep.
C7_PermanentReturnsAtOnce ==
    \A i \in 1..Len(tried) :
        FailedWith(tried[i], Http4xx \cup {S_too_many_redirects}) =>
            /\ i = Len(tried)
            /\ pc # "fetch"
            /\ ret.error = tried[i].error
            /\ pc = "handle" => now = Last(reqLog).start + ReqMs

\* a 4xx answer to a retry (the first attempt failed with a transient error)
C7_Witness ==
    /\ pc = "handle"
    /\ Len(tried) = 2
    /\ Transient(tried[1])
    /\ FailedWith(tried[2], Http4xx)

\* C8: fetch-with-retry makes at most three attempts; the first attempt without
\* an error ends it and is what it returns, so a url that succeeds on a later
\* attempt is accepted and leaves no entry in errors.
C8_BoundedRetry ==
    /\ Len(tried) <= 3
    /\ \A i \in 1..Len(tried) :
         (~tried[i].raised /\ tried[i].error.none) =>
            /\ i = Len(tried)
            /\ pc # "fetch"
            /\ ret.error.none
            /\ \A k \in 1..Len(errors) : errors[k].url # Last(reqLog).url
            /\ (pc # "handle" /\ ~ret.page_data.none) =>
                  /\ pages # << >>
                  /\ Last(pages) = ret.page_data.val

\* a page accepted on the third attempt
C8_Witness ==
    /\ pc = "loop"
    /\ Len(tried) = 3
    /\ tried[3].error.none
    /\ ~ret.page_data.none
    /\ Last(pages) = ret.page_data.val

\* C9: the start times of any two consecutive requests of a crawl, retries
\* included, are at least interval apart.
C9_RequestsSpaced ==
    \A i \in 2..Len(reqLog) :
        reqLog[i].start - reqLog[i - 1].start >= interval

\* the last attempt got a response whose content type is not text/html
NonHtml ==
    /\ tried # << >>
    /\ Last(tried).o.exc = "none"
    /\ ~Contains(Last(tried).o.ctype, S_text_html)

\* C10: processing a url whose response is not text/html appends nothing to
\* pages or errors, leaves both counts and the frontier unchanged, and the
\* url's key is marked visited.
C10_SilentSkip ==
    [][(pc = "handle" /\ NonHtml) =>
         /\ pc' = "loop"
         /\ pages' = pages
         /\ errors' = errors
         /\ crawled_count' = crawled_count
         /\ error_count' = error_count
         /\ queue' = queue
         /\ visited' = visited
         /\ _normalize_url(url) \in visited]_vars

\* a pdf answered with status 503 was skipped: nothing was recorded
C10_Witness ==
    /\ pc = "loop"
    /\ NonHtml
    /\ Last(tried).o.status = 503
    /\ pages = << >>
    /\ errors = << >>
    /\ crawled_count = 0
    /\ error_count = 0
    /\ _normalize_url(url) \in visited

\* C11: a failed URL does not abort the crawl.  The step taken after
\* fetch-with-retry returned an error leaves pages, crawled_count and the
\* frontier as they were and goes back to the loop head; from the loop head
\* with the guard true the next step pops the head of the frontier; and pages
\* only ever grows at its end, so pages accepted before the failure are still
\* in the outcome together with those accepted after it.
C11_FailureDoesNotAbort ==
    /\ [][(pc = "handle" /\ ~ret.error.none) =>
             /\ pages' = pages
             /\ crawled_count' = crawled_count
             /\ queue' = queue
             /\ pc' = "loop"]_vars
    /\ [][(pc = "loop" /\ LoopGuard) =>
             /\ queue' = Tail(queue)
             /\ url' = Head(queue)[1]]_vars
    /\ [][/\ Len(pages') >= Len(pages)
          /\ SubSeq(pages', 1, Len(pages)) = pages]_vars

\* the crawl returned a page accepted before and a page accepted after the
\* timeout of /page2
C11_Witness ==
    /\ pc = "done"
    /\ site = "cyclic"
    /\ pages = <<[url |-> U_root], [url |-> U_www_p3]>>
    /\ errors = <<[url |-> U_page2, error |-> S_timeout]>>
    /\ Len(reqLog) = 3
    /\ reqLog[1].url = U_root
    /\ reqLog[2].url = U_page2
    /\ reqLog[3].url = U_www_p3

\* the number of errors entries recorded for the url u
ErrorsFor(u) == Cardinality({i \in 1..Len(errors) : errors[i].url = u})

\* C12: once a popped URL has been handled, it has exactly one errors entry
\* if its last attempt returned an error value, whatever that value is, and
\* none otherwise; no failure is left without an errors entry.
C12_FailureRecorded ==
    (pc \in {"loop", "done"} /\ tried # << >>) =>
        LET t == Last(tried)
            u == Last(reqLog).url
        IN  /\ ~t.error.none =>
                  /\ ErrorsFor(u) = 1
                  /\ Last(errors) = [url |-> u, error |-> t.error.val]
            /\ t.error.none => ErrorsFor(u) = 0

\* C13: the crawl call never fails outright: whatever the seed, the pages and
\* the per-URL outcomes, no exception ever leaves crawl.
C13_NeverRaises == pc # "raised"

\* the normalized keys of the url fields of pages, then of errors
OutcomeKeys ==
    [i \in 1..(Len(pages) + Len(errors)) |->
        IF i <= Len(pages)
        THEN _normalize_url(pages[i].url)
        ELSE _normalize_url(errors[i - Len(pages)].url)]

\* C14: when the crawl has returned, no normalized key occurs twice among
\* the url fields of pages (final URLs) and errors (requested URLs).
C14_DistinctKeys ==
    pc = "done" =>
        \A i, j \in 1..Len(OutcomeKeys) :
            i # j => OutcomeKeys[i] # OutcomeKeys[j]

\* the entries of news occur in links in the same relative order
InDiscoveryOrder(news, links) ==
    \A a, b \in 1..Len(news) :
        a < b => \E x, y \in 1..Len(links) :
                    /\ x < y
                    /\ links[x] = news[a][1]
                    /\ links[y] = news[b][1]

\* C15: the frontier is a FIFO queue and the crawl is breadth-first.  Depths
\* never decrease from the head of the frontier to its tail and no queued
\* entry is shallower than the entry being processed; a pop takes the head,
\* whose depth is at least that of the entry popped before; an append keeps
\* the old entries in front and adds the new ones in discovery order.
C15_BreadthFirst ==
    /\ [](/\ \A i, j \in 1..Len(queue) : i < j => queue[i][2] <= queue[j][2]
          /\ \A i \in 1..Len(queue) : depth <= queue[i][2])
    /\ [][Len(queue') < Len(queue) =>
             /\ queue' = Tail(queue)
             /\ <<url', depth'>> = Head(queue)
             /\ depth' >= depth]_vars
    /\ [][Len(queue') > Len(queue) =>
             /\ SubSeq(queue', 1, Len(queue)) = queue
             /\ InDiscoveryOrder(SubSeq(queue', Len(queue) + 1, Len(queue')),
                                 ret.links)]_vars

\* a depth-1 entry has just been processed, the frontier holds depth-1 entries
\* in front of depth-2 entries
C15_Witness ==
    /\ pc = "loop"
    /\ depth = 1
    /\ Len(pages) >= 2
    /\ Len(queue) >= 3
    /\ Head(queue)[2] = 1
    /\ queue[Len(queue) - 1][2] = 2
    /\ queue[Len(queue) - 1][1] # Last(queue)[1]

\* the most links any page of the world carries
MostLinks ==
    CHOOSE n \in 0..Cardinality(Urls) * 2 :
        /\ \A s \in SiteNames, u \in Urls : Len(Site(s).links[u]) <= n
        /\ \E s \in SiteNames, u \in Urls : Len(Site(s).links[u]) = n

\* what is left of the handling of the popped entry, counting the links its
\* page may still append to the frontier
PcRank ==
    CASE pc = "rate" -> 8 * MostLinks + 6
      [] pc = "fetch" -> 8 * MostLinks + 5 - attempt
      [] pc = "handle" -> 8 * MostLinks + 2
      [] pc = "loop" -> 1
      [] OTHER -> 0

\* a natural number that every step of the crawl makes smaller: the keys not
\* yet visited (each key is that of a URL of the world) first, then the
\* queued entries, then the position in the loop body
Measure ==
    (8 * MostLinks + 8) * (Cardinality(Urls) - Cardinality(visited))
    + 8 * Len(queue) + PcRank

\* C16: every crawl ends, given that each request returns: every step makes
\* a natural-number measure smaller, so no crawl takes infinitely many steps,
\* and a crawl that has not ended has a step to take (some outcome for the
\* request in hand).  The loop is left exactly when the frontier is empty or
\* crawled_count has reached max_pages: from the loop head with that
\* condition the only step is the return, the return is taken from nowhere
\* else, and with max_pages >= 1 a non-empty frontier at return means
\* crawled_count = max_pages.  The return requests nothing and records
\* nothing: what is left in the frontier is dropped.
C16_Terminates ==
    /\ [][Measure' < Measure]_vars
    /\ [](/\ Measure >= 0
          /\ pc \in {"loop", "rate", "fetch", "handle", "done", "raised"}
          /\ pc = "fetch" => Site(site).serves[url] # {}
          /\ pc = "fetch" => attempt <= max_retries)
    /\ [][(pc = "loop" /\ (queue = << >> \/ crawled_count >= max_pages)) =>
             pc' = "done"]_vars
    /\ [][pc' = "done" =>
             /\ pc = "loop"
             /\ queue = << >> \/ crawled_count >= max_pages
             /\ UNCHANGED <<queue, pages, crawled_count, errors, error_count,
                            reqLog, visited>>]_vars
    /\ []((pc = "done" /\ queue # << >> /\ max_pages >= 1) =>
             crawled_count = max_pages)

\* the crawl returned at the page cap with an entry left in the frontier that
\* was never requested and has no errors entry
C16_Witness ==
    /\ pc = "done"
    /\ max_pages >= 1
    /\ crawled_count = max_pages
    /\ \E i \in 1..Len(queue) :
          /\ \A k \in 1..Len(reqLog) : reqLog[k].url # queue[i][1]
          /\ ErrorsFor(queue[i][1]) = 0
          /\ ~IsVisited(queue[i][1])

\* C17: bulk extraction returns one entry per input URL, duplicates included,
\* entry i being the one of input URL i, in whatever order the calls completed.
C17_OnePerInput ==
    bpc = "done" =>
        /\ Len(out) = Len(urls)
        /\ \A i \in 1..Len(urls) :
              /\ out[i].url = urls[i]
              /\ out[i] = results[i]

\* three URLs, the first and the last the same, returned after the second
\* call completed before the first
C17_Witness ==
    /\ bpc = "done"
    /\ Len(urls) = 3
    /\ urls[1] = urls[3]
    /\ urls[1] # urls[2]
    /\ order = <<2, 1, 3>>

\* the calls between acquiring and releasing a permit
InFlight == {i \in 1..Len(urls) : task[i] = "inflight"}

\* C18: with a concurrency bound N >= 1, never more than N calls are between
\* acquiring and releasing a permit, the permits held and free add up to N,
\* and every call eventually gets its permit.
C18_BoundedConcurrency ==
    /\ []((concurrency >= 1 /\ bpc # "start") =>
             /\ Cardinality(InFlight) <= concurrency
             /\ sem >= 0
             /\ sem + Cardinality(InFlight) = concurrency)
    /\ <>(concurrency < 1 \/ \A i \in 1..Len(urls) : task[i] # "waiting")

\* with one permit and three URLs: one call is done, one holds the permit and
\* one is waiting for it
C18_Witness ==
    /\ concurrency = 1
    /\ Len(urls) = 3
    /\ task = <<"done", "inflight", "waiting">>
    /\ sem = 0

\* C19: a failure of one URL neither fails the run nor touches the entries
\* of the others: no exception leaves extract_urls once the semaphore exists,
\* and each returned entry is the one its own request's outcome determines.
C19_FailureIsolated ==
    /\ concurrency >= 0 => bpc # "raised"
    /\ bpc = "done" =>
          \A i \in 1..Len(urls) : out[i] = _fetch_one(urls[i], served[i])

\* C20: out-of-range arguments do not make the core raise: bulk extraction
\* called with concurrency <= 0 never ends with an exception.
C20_OutOfRangeNoRaise == concurrency <= 0 => bpc # "raised"

\* C21: the Fetcher classifies an outcome in the order transport error, content
\* type, status.  An attempt whose request raised has the transport's error;
\* a response whose content type does not contain text/html gives no error
\* whatever its status and is the URL's last attempt (not retried), and what
\* crawl then handles has no page, no links and no error; a text/html
\* response with status >= 400 gives "HTTP <status>"; and an error that reads
\* "HTTP <status>" comes only from a text/html response with status >= 400.
C21_ClassifiedInOrder ==
    /\ \A i \in 1..Len(tried) :
         LET o == tried[i].o
             e == tried[i].error
         IN  ~tried[i].raised =>
               /\ o.exc = "TimeoutException" => e = Some(S_timeout)
               /\ o.exc = "TooManyRedirects" => e = Some(S_too_many_redirects)
               /\ o.exc = "RequestError" => e = Some(o.msg)
               /\ (o.exc = "none" /\ ~Contains(o.ctype, S_text_html)) =>
                     (e.none /\ i = Len(tried))
               /\ (o.exc = "none" /\ Contains(o.ctype, S_text_html)) =>
                     IF o.status >= 400
                     THEN e = Some(S_HTTP_sp \o IntToStr(o.status))
                     ELSE e.none
               /\ (~e.none /\ StartsWith(e.val, S_HTTP_sp)) =>
                     /\ o.exc = "none"
                     /\ Contains(o.ctype, S_text_html)
                     /\ o.status >= 400
    /\ (pc = "handle" /\ NonHtml) =>
         ret = [page_data |-> None, links |-> << >>, error |-> None]

\* a pdf answered with status 503 is being handled after a single attempt, with
\* no page, no links and no error
C21_Witness ==
    /\ pc = "handle"
    /\ Len(tried) = 1
    /\ tried[1].o = O_pdf_503
    /\ tried[1].error.none
    /\ ret.page_data.none
    /\ ret.links = << >>
    /\ attempt = 0

Gap(k) == reqLog[k].start - reqLog[k - 1].end

\* the backoff slept so far for the URL of request k: the gaps before its retry
\* attempts
RECURSIVE BackoffUpTo(_)
BackoffUpTo(k) ==
    IF k <= 1 \/ reqLog[k].attempt = 0 THEN 0 ELSE Gap(k) + BackoffUpTo(k - 1)

\* C30: the retry backoff is linear in the attempt number.  The sleep before
\* the 2nd attempt for a URL is 1500 ms and before the 3rd 3000 ms; a step of
\* _fetch_page_with_retry that goes round again has slept exactly that and was
\* not the final attempt, its error being retryable; a step that returns (after
\* the final attempt, a success or a non-retryable error) or raises sleeps
\* nothing after the request; so the backoff of one URL is at most 4500 ms.
C30_LinearBackoff ==
    /\ [](\A k \in 2..Len(reqLog) :
            /\ reqLog[k].attempt = 1 => Gap(k) = 1500
            /\ reqLog[k].attempt = 2 => Gap(k) = 3000
            /\ reqLog[k].attempt <= 2
            /\ BackoffUpTo(k) <= 4500)
    /\ [][Len(reqLog') # Len(reqLog) =>
            IF pc' = "fetch"
            THEN /\ attempt < max_retries
                 /\ attempt' = attempt + 1
                 /\ ~Last(tried').error.none
                 /\ is_retryable(Last(tried').error.val)
                 /\ now' - Last(reqLog').end = 1500 * attempt'
            ELSE /\ now' = Last(reqLog').end
                 /\ \/ attempt = max_retries
                    \/ Last(tried').raised
                    \/ Last(tried').error.none
                    \/ ~is_retryable(Last(tried').error.val)]_vars

\* three attempts were made for one URL: 1.5 s were slept before the second,
\* 3 s before the third, nothing after it
C30_Witness ==
    /\ pc = "handle"
    /\ Len(reqLog) >= 3
    /\ Last(reqLog).attempt = 2
    /\ Gap(Len(reqLog) - 1) = 1500
    /\ Gap(Len(reqLog)) = 3000
    /\ BackoffUpTo(Len(reqLog)) = 4500
    /\ now = Last(reqLog).end

\* C24: for all absolute URLs u1, u2 that differ only by a trailing slash or
\* only by a #fragment, with or without a query string or params,
\* _normalize_url(u1) = _normalize_url(u2).
C24_SlashAndFragment ==
    (fn = "_normalize_url" /\ Len(result) = 2) => result[1] = result[2]

\* what holds of _normalize_url: the keys agree when the two URLs differ by a
\* slash at the end of the path or by the fragment, and a URL whose path is
\* empty or only slashes has the root path in its key
NormalizeOnPathAndFragment ==
    (fn = "_normalize_url" /\ Len(result) = 2) =>
        /\ args.kind \in {"path_slash", "fragment"} => result[1] = result[2]
        /\ urlparse(args.u[1]).path \in {<< >>, S_slash} =>
             urlparse(result[1]).path = S_slash

C26_ContentCaps ==
    (fn = "_extract_page_data" /\ result # << >>) =>
        LET page == result[1]
        IN  /\ Len(page.raw_content) <= _MAX_CONTENT_CHARS
            /\ ~page.excerpt.none =>
                 /\ Len(page.excerpt.val) <= _EXCERPT_CHARS
                 /\ Len(page.excerpt.val) <= Len(page.raw_content)
                 /\ page.excerpt.val =
                      SubSeq(page.raw_content, 1, Len(page.excerpt.val))

\* a text longer than the cap was cut to it, and the excerpt is a shorter
\* prefix because its cut ended in a space
C26_Witness ==
    /\ fn = "_extract_page_data"
    /\ result # << >>
    /\ ~args.doc.main.none
    /\ Len(Collapse(args.doc.main.val)) > _MAX_CONTENT_CHARS
    /\ Len(result[1].raw_content) = _MAX_CONTENT_CHARS
    /\ ~result[1].excerpt.none
    /\ result[1].excerpt.val # << >>
    /\ Len(result[1].excerpt.val) < _EXCERPT_CHARS

\* C27: applying whitespace-collapse to the extractor's truncated raw_content
\* returns raw_content unchanged, also when the text before truncation is
\* longer than the cap.
C27_CollapseRoundTrip ==
    (fn = "_extract_page_data" /\ result # << >>) =>
        Collapse(result[1].raw_content) = result[1].raw_content

\* the first candidate, in the order og:title, twitter:title, <title>, first
\* <h1>, that yields text, cut to the title cap
FirstTitleText(doc) ==
    LET cut(c) == Slice(Strip(c.val), 0, TitleChars)
        yields(c) == ~c.none /\ Strip(c.val) # << >>
    IN  IF yields(doc.og) THEN Some(cut(doc.og))
        ELSE IF yields(doc.tw) THEN Some(cut(doc.tw))
        ELSE IF yields(doc.title) THEN Some(cut(doc.title))
        ELSE IF yields(doc.h1) THEN Some(cut(doc.h1))
        ELSE None

\* C28: the title of a page is the first candidate that yields text in the
\* order og:title, twitter:title, <title>, first <h1>, each cut to the title
\* cap, and the page URL when no candidate yields text; it is never empty.
C28_TitlePriority ==
    (fn = "_extract_page_data" /\ result # << >>) =>
        /\ result[1].title # << >>
        /\ result[1].title =
             IF FirstTitleText(args.doc).none
             THEN args.url
             ELSE FirstTitleText(args.doc).val

\* the nearest value to n in lo..hi
Nearest(n, lo, hi) == IF n < lo THEN lo ELSE IF n > hi THEN hi ELSE n

\* C29: whatever a request carries, the core is called with max_depth in
\* 1..5, max_pages in 1..200, rate_limit in 0.1..10.0 (1..100 tenths),
\* concurrency in 1..10 and at most 50 URLs; a number out of range is clamped
\* to the nearest bound and one in range is passed as it is; a list longer
\* than 50 is cut to its first 50 entries; an empty list is rejected.
C29_ApiClamps ==
    /\ (fn = "crawl_site" /\ result # << >> /\ result[1].called # "rejected")
         => /\ result[1].called = "crawl"
            /\ result[1].max_depth \in 1..5
            /\ result[1].max_pages \in 1..200
            /\ result[1].rate_limit \in 1..100
            /\ args.max_depth.kind = "num" =>
                 result[1].max_depth = Nearest(args.max_depth.v, 1, 5)
            /\ args.max_pages.kind = "num" =>
                 result[1].max_pages = Nearest(args.max_pages.v, 1, 200)
            /\ args.rate_limit.kind = "num" =>
                 result[1].rate_limit = Nearest(args.rate_limit.v, 1, 100)
    /\ (fn = "extract_content" /\ result # << >>) =>
         IF args.urls = << >>
         THEN result[1].called = "rejected"
         ELSE result[1].called # "rejected" =>
                /\ result[1].called = "extract_urls"
                /\ result[1].concurrency \in 1..10
                /\ args.concurrency.kind = "num" =>
                     result[1].concurrency =
                         Nearest(args.concurrency.v, 1, 10)
                /\ Len(result[1].urls) <= 50
                /\ Len(result[1].urls) = Nearest(Len(args.urls), 1, 50)
                /\ \A i \in 1..Len(result[1].urls) :
                     result[1].urls[i] = args.urls[i]

\* a request with 51 URLs, the 51st unlike the others, and concurrency 11
\* reached extract_urls with its first 50 URLs and concurrency 10
C29_Witness ==
    /\ fn = "extract_content"
    /\ result # << >>
    /\ Len(args.urls) = 51
    /\ args.urls[51] = U_ext
    /\ args.concurrency = Num(11)
    /\ result[1].called = "extract_urls"
    /\ Len(result[1].urls) = 50
    /\ result[1].concurrency = 10

\* the URLs the crawl of frame f has requested
RequestedBy(f) == {f.reqLog[k].url : k \in 1..Len(f.reqLog)}

\* how many frontier entries the crawl of frame f has taken up: those it has
\* requested, and the one it has popped and not requested yet
TakenUpBy(f) ==
    Cardinality({k \in 1..Len(f.reqLog) : f.reqLog[k].attempt = 0})
    + (IF f.pc = "rate" \/ (f.pc = "fetch" /\ f.tried = << >>) THEN 1 ELSE 0)

\* what the crawl of frame f holds comes from its own progress alone: its
\* visited set has one key for each frontier entry it took up itself; its
\* pages are pages its own requests were answered with and its errors are
\* for URLs it requested; its counts are those of its own lists; its
\* requests follow one another
OwnProgress(f) ==
    /\ Cardinality(f.visited) = TakenUpBy(f)
    /\ \A i \in 1..Len(f.pages) :
         f.pages[i].url \in {Site(f.site).final[u] : u \in RequestedBy(f)}
    /\ \A i \in 1..Len(f.errors) : f.errors[i].url \in RequestedBy(f)
    /\ f.crawled_count = Len(f.pages)
    /\ f.error_count = Len(f.errors)
    /\ \A k \in 2..Len(f.reqLog) : f.reqLog[k - 1].end <= f.reqLog[k].start

\* C22: two concurrent crawl invocations share no mutable state.  Each step is
\* either the event loop handing over at an await, which puts the suspended
\* crawl's visited set, frontier, limiter timestamp and results back exactly as
\* they were left and changes nothing else, or a step of the running crawl,
\* which leaves everything the suspended crawl owns as it is; the limiter of
\* the running crawl waits on its own timestamp; and what each crawl holds
\* comes from its own requests.
C22_NoSharedState ==
    /\ [](cur \in {1, 2} /\ OwnProgress(Frame) /\ OwnProgress(other))
    /\ [][IF cur' # cur
          THEN /\ other' = Frame
               /\ Frame' = other
               /\ now' = now
          ELSE /\ other' = other
               /\ (pc = "rate" /\ pc' = "fetch") =>
                    /\ now' = (IF now - last_req < interval
                               THEN last_req + interval
                               ELSE now)
                    /\ last_req' = now']_vars

\* both crawls have made requests, the suspended one between two requests of
\* the running one, and their limiter timestamps and visited sets differ
C22_Witness ==
    /\ cur = 1
    /\ Len(reqLog) >= 2
    /\ Len(other.reqLog) >= 1
    /\ reqLog[1].end <= other.reqLog[1].start
    /\ other.reqLog[1].end <= reqLog[2].start
    /\ other.last_req # last_req
    /\ other.visited # visited
    /\ other.pc = "done"
    /\ pc = "done"

\* the first candidate for the main container, in the order <main>,
\* <article>, id match, class match, <body>, that holds text
FirstWithText(doc) ==
    LET holds(c) == ~c.none /\ Collapse(c.val) # << >>
    IN  IF holds(doc.main) THEN doc.main
        ELSE IF holds(doc.article) THEN doc.article
        ELSE IF holds(doc.by_id) THEN doc.by_id
        ELSE IF holds(doc.by_class) THEN doc.by_class
        ELSE IF holds(doc.body) THEN doc.body
        ELSE None

\* C31: the main content is the text of the first non-empty candidate in the
\* order <main>, <article>, element with content-keyword id, element with
\* content-keyword class, <body>: a candidate that is there but empty is
\* passed over, and the text is empty with word count 0 only when no
\* candidate has text.
C31_FirstNonEmptyContainer ==
    (fn = "_extract_page_data" /\ result # << >>) =>
        LET chosen == FirstWithText(args.doc)
        IN  /\ result[1].raw_content =
                 IF chosen.none
                 THEN << >>
                 ELSE Slice(Collapse(chosen.val), 0, _MAX_CONTENT_CHARS)
            /\ (result[1].raw_content = << >> /\ result[1].word_count = 0)
                 <=> chosen.none

\* C32: parsing and text extraction run in a worker, off the event loop: the
\* step of the loop that takes the response of a bulk fetch hands the page
\* to the worker and ends there, so no single step of the loop leads a call
\* from waiting for its response to holding the extracted page while another
\* call is waiting for the network.
C32_ParseOffLoop ==
    [][\A i \in 1..Len(urls) :
         (/\ task[i] = "inflight"
          /\ \E j \in 1..Len(urls) : j # i /\ task[j] = "inflight")
            => results'[i].page.none]_vars

\* C33: extract retries both a rate-limit (429) and an overloaded (529)
\* answer with exponential backoff (1 s, 2 s), makes at most 3 attempts for
\* one item, and every pass that ends the call returns an
\* ItemExtractionResult: none raises.
C33_ExtractRetries ==
    fn = "extract" =>
        /\ Len(result) <= _MAX_RETRIES
        /\ \A k \in 1..Len(result) :
             /\ result[k].next # "raise"
             /\ (result[k].status \in {429, 529} /\ k < _MAX_RETRIES)
                  => /\ result[k].next = "continue"
                     /\ result[k].slept = 2 ^ (k - 1)

\* C34: the frontier holds entries of at most two consecutive depth values,
\* in non-decreasing order from head to tail; the only entry of depth 0 is
\* the seed, before anything was popped, and every other entry has a depth
\* in 1..max_depth.
C34_FrontierDepths ==
    /\ \A k \in 1..(Len(queue) - 1) : queue[k][2] <= queue[k + 1][2]
    /\ queue # << >> => queue[Len(queue)][2] - queue[1][2] <= 1
    /\ \A k \in 1..Len(queue) :
         IF queue[k][2] = 0
         THEN queue = <<<<start_url, 0>>>> /\ visited = {}
         ELSE queue[k][2] \in 1..max_depth

\* after a page at depth 1 was accepted the frontier holds entries of depth 1
\* followed by entries of depth 2
C34_Witness ==
    /\ pc = "loop"
    /\ Len(queue) >= 2
    /\ queue[1][2] = 1
    /\ queue[Len(queue)][2] = 2
    /\ depth = 1

\* C35: only an accepted page consumes page budget.  crawled_count moves
\* only in the step that accepts a page, and then by one; the step taken
\* after a failure or a silent skip leaves it as it was; and crawl returns
\* only with the frontier empty or crawled_count at max_pages, however many
\* URLs were requested or failed.
C35_BudgetCountsAcceptedPages ==
    /\ [](pc = "done" => (queue = << >> \/ crawled_count >= max_pages))
    /\ [][crawled_count' # crawled_count =>
             /\ pc = "handle"
             /\ ~Truthy(ret.error)
             /\ ~ret.page_data.none
             /\ crawled_count' = crawled_count + 1
             /\ pages' = Append(pages, ret.page_data.val)]_vars
    /\ [][(pc = "handle" /\ (Truthy(ret.error) \/ ret.page_data.none)) =>
             crawled_count' = crawled_count /\ pages' = pages]_vars

\* a crawl with a budget of two pages returned after requesting more distinct
\* URLs than max_pages and recording more errors than max_pages, its budget
\* not used up
C35_Witness ==
    /\ pc = "done"
    /\ max_pages = 2
    /\ error_count > max_pages
    /\ Cardinality(visited) > max_pages
    /\ crawled_count < max_pages
    /\ queue = << >>

\* C36: the frontier changes in two ways only.  A step at the loop head
\* removes the popped entry and adds nothing; the step that accepts a page
\* appends entries of depth + 1 whose URLs are links returned by the attempt
\* that succeeded; the step taken after a failure or a silent skip leaves the
\* frontier as it was.
C36_FrontierFrame ==
    /\ [][queue' # queue =>
             \/ pc = "loop" /\ queue' = Tail(queue)
             \/ /\ pc = "handle"
                /\ ~Truthy(ret.error)
                /\ ~ret.page_data.none
                /\ crawled_count' = crawled_count + 1
                /\ tried[Len(tried)].error.none
                /\ Len(queue') > Len(queue)
                /\ SubSeq(queue', 1, Len(queue)) = queue
                /\ \A k \in (Len(queue) + 1)..Len(queue') :
                     /\ queue'[k][2] = depth + 1
                     /\ \E i \in 1..Len(_fetch_page(site, url,
                                          tried[Len(tried)].o).links) :
                          _fetch_page(site, url, tried[Len(tried)].o).links[i]
                            = queue'[k][1]]_vars
    /\ [][(pc = "handle" /\ (Truthy(ret.error) \/ ret.page_data.none)) =>
             queue' = queue]_vars

\* a page accepted at its second attempt, after a failed first one: the
\* frontier ends with a link of that page, one level deeper
C36_Witness ==
    /\ pc = "loop"
    /\ Len(tried) = 2
    /\ ~tried[1].error.none
    /\ tried[2].error.none
    /\ ~ret.page_data.none
    /\ queue # << >>
    /\ queue[Len(queue)][2] = depth + 1
    /\ \E i \in 1..Len(ret.links) : ret.links[i] = queue[Len(queue)][1]

\* C37: the bulk path tests the status before the content type.  A response
\* with status >= 400 gives the entry error "HTTP <status>" whatever its
\* content type, where the crawl path skips a non-HTML one in silence; a
\* response below 400 whose content type does not contain text/html gives
\* the error "non-HTML content-type: " followed by the content type; and
\* every entry has either an error and no content field, or no error and a
\* title that is not empty.
C37_BulkClassification ==
    \A i \in 1..Len(results) :
        results[i] # NoEntry =>
            LET o == served[i]
                e == results[i]
            IN  /\ (o.exc = "none" /\ o.status >= 400) =>
                     /\ e.error = Some(S_HTTP_sp \o IntToStr(o.status))
                     /\ ~Contains(o.ctype, S_text_html) =>
                          _fetch_page("scenario", urls[i], o).error.none
                /\ (/\ o.exc = "none"
                    /\ o.status < 400
                    /\ ~Contains(o.ctype, S_text_html)) =>
                     e.error = Some(S_non_html \o Slice(o.ctype, 0, 60))
                /\ IF e.error.none
                   THEN ~e.page.none /\ e.page.val.title # << >>
                   ELSE e.page.none

\* a list returned with a pdf answered 503 reported as "HTTP 503", a pdf
\* answered 200 reported as non-HTML, and a page whose <title> is empty
\* returned with its final URL for title
C37_Witness ==
    /\ bpc = "done"
    /\ \E i, j, k \in 1..Len(out) :
         /\ served[i] = O_pdf_503
         /\ out[i].error = Some(S_HTTP_sp \o <<"5", "0", "3">>)
         /\ served[j] = O_pdf
         /\ out[j].error = Some(S_non_html \o CT_pdf)
         /\ served[k] = O_ok
         /\ out[k].error.none
         /\ out[k].page.val.title = U_root

\* C38: normalization is idempotent, normalizing a key gives the key back,
\* and blind to letter case: two URLs that differ only in the case of host,
\* path or query have the same key.
C38_IdempotentCaseBlind ==
    fn = "_normalize_url" =>
        /\ (args.kind = "twice" /\ Len(result) = 2) => result[2] = result[1]
        /\ (args.kind = "case" /\ Len(result) = 2) => result[2] = result[1]

====
